---- MODULE Spec2Model ----
(***************************************************************************)
(* super-regex: timeout-bounded regular-expression matching.               *)
(*                                                                         *)
(* The model follows src/index.js (lines 55-308).  One caller-owned regex  *)
(* and one input string live for a whole behaviour; the six public         *)
(* operations are called on them with options drawn per call.              *)
(*                                                                         *)
(* Numbers.  A JavaScript number is a record [k, v]: k is "undefined",     *)
(* "NaN", "inf", "ninf" or "fin"; a finite number holds its value in v,    *)
(* counted in ticks of 1/Scale millisecond, so that fractional timeouts    *)
(* and fractional elapsed times exist and Math.trunc / Math.ceil do work.  *)
(*                                                                         *)
(* Strings are sequences of characters.  lastIndex and match indices are   *)
(* 0-based as in JavaScript; character i of s is s[i + 1].                 *)
(***************************************************************************)
EXTENDS Integers, Sequences, FiniteSets, TLC

\* ------------------------------------------------------------------ bounds
Scale == 2
MaxT == 4
MaxCost == 5
MaxLen == 2

\* ----------------------------------------------------------------- numbers
Undefined == [k |-> "undefined", v |-> 0]
NaN == [k |-> "NaN", v |-> 0]
PosInf == [k |-> "inf", v |-> 0]
NegInf == [k |-> "ninf", v |-> 0]
Fin(n) == [k |-> "fin", v |-> n]
Ms(n) == Fin(n * Scale)

Abs(n) == IF n < 0 THEN 0 - n ELSE n

IsNaN(x) == x.k = "NaN"
IsFinite(x) == x.k = "fin"

MathAbs(x) ==
  CASE x.k = "fin" -> Fin(Abs(x.v))
    [] x.k = "ninf" -> PosInf
    [] x.k = "undefined" -> NaN
    [] OTHER -> x

MathTrunc(x) ==
  IF x.k = "fin"
  THEN IF x.v >= 0 THEN Fin((x.v \div Scale) * Scale)
       ELSE Fin(0 - ((Abs(x.v) \div Scale) * Scale))
  ELSE IF x.k = "undefined" THEN NaN ELSE x

MathCeil_floor(x) ==
  IF x.k = "fin"
  THEN IF x.v >= 0 THEN Fin((x.v \div Scale) * Scale)
       ELSE Fin(0 - (((Abs(x.v) + Scale - 1) \div Scale) * Scale))
  ELSE IF x.k = "undefined" THEN NaN ELSE x

MathCeil(x) ==
  IF x.k = "fin"
  THEN IF x.v >= 0 THEN Fin(((x.v + Scale - 1) \div Scale) * Scale)
       ELSE Fin(0 - ((Abs(x.v) \div Scale) * Scale))
  ELSE IF x.k = "undefined" THEN NaN ELSE x

\* Math.max(a, b) and Math.min(a, b): NaN if either is NaN.
MathMax(a, b) ==
  CASE a.k \in {"NaN", "undefined"} \/ b.k \in {"NaN", "undefined"} -> NaN
    [] a.k = "inf" \/ b.k = "inf" -> PosInf
    [] a.k = "ninf" -> b
    [] b.k = "ninf" -> a
    [] OTHER -> IF a.v >= b.v THEN a ELSE b

MathMin(a, b) ==
  CASE a.k \in {"NaN", "undefined"} \/ b.k \in {"NaN", "undefined"} -> NaN
    [] a.k = "ninf" \/ b.k = "ninf" -> NegInf
    [] a.k = "inf" -> b
    [] b.k = "inf" -> a
    [] OTHER -> IF a.v <= b.v THEN a ELSE b

\* a - b for a finite b.
Minus(a, b) ==
  CASE a.k = "fin" -> Fin(a.v - b.v)
    [] a.k = "undefined" -> NaN
    [] OTHER -> a

\* x <= 0 (false for NaN and undefined).
LeqZero(x) ==
  CASE x.k = "fin" -> x.v <= 0
    [] x.k = "ninf" -> TRUE
    [] OTHER -> FALSE

\* A default parameter value applies when the argument is undefined.
Default(x, d) == IF x.k = "undefined" THEN d ELSE x

FiniteInputs == {Fin(n) : n \in (0 - MaxT)..MaxT}
TimeoutInputs == {Undefined, NaN, PosInf, NegInf} \cup FiniteInputs

\* --------------------------------------------------------- normalizeTimeout
normalizeTimeout_noclamp(timeout) ==
  IF timeout.k = "undefined" \/ IsNaN(timeout)
  THEN Undefined
  ELSE LET normalized == MathTrunc(MathAbs(timeout))
       IN IF ~IsFinite(normalized) THEN Undefined ELSE normalized

normalizeTimeout_noabs(timeout) ==
  IF timeout.k = "undefined" \/ IsNaN(timeout)
  THEN Undefined
  ELSE LET normalized == MathMax(Ms(1), MathTrunc(timeout))
       IN IF ~IsFinite(normalized) THEN Undefined ELSE normalized

normalizeTimeout_nan(timeout) ==
  IF timeout.k = "undefined"
  THEN Undefined
  ELSE LET normalized == IF IsNaN(timeout) THEN Ms(1)
                         ELSE MathMax(Ms(1), MathTrunc(MathAbs(timeout)))
       IN IF ~IsFinite(normalized) THEN Undefined ELSE normalized

normalizeTimeout(timeout) ==
  IF timeout.k = "undefined" \/ IsNaN(timeout)
  THEN Undefined
  ELSE LET normalized == MathMax(Ms(1), MathTrunc(MathAbs(timeout)))
       IN IF ~IsFinite(normalized) THEN Undefined ELSE normalized

\* ------------------------------------------------------------------ values
Alphabet == {"a", "1"}
Strings == UNION {[1..n -> Alphabet] : n \in 0..MaxLen}

\* A capture group that did not participate in the match.
UndefinedGroup == <<"undefined">>

NoMatch == [match |-> <<>>, index |-> 0, groups |-> <<>>, namedGroups |-> {}, input |-> <<>>]
VUndefined == [t |-> "undefined", b |-> FALSE, m |-> NoMatch]
VBool(b) == [t |-> "boolean", b |-> b, m |-> NoMatch]
VMatch(m) == [t |-> "Match", b |-> FALSE, m |-> m]

NoError == [name |-> "none", code |-> "none", message |-> "none"]
ScriptTimeoutError == [name |-> "Error", code |-> "ERR_SCRIPT_EXECUTION_TIMEOUT", message |-> "Script execution timed out"]
EngineError == [name |-> "EngineError", code |-> "none", message |-> "engine failure"]
GlobalFlagError == [name |-> "Error", code |-> "none", message |-> "The regex must have the global flag"]
AbortError == [name |-> "AbortError", code |-> "none", message |-> "This operation was aborted"]
TimeoutError == [name |-> "TimeoutError", code |-> "none", message |-> "Timed out"]

\* ------------------------------------------------------------ regex engine
\* The engine is the host's; it is modelled for two patterns.
\*   DigitsSource    /\d+/         no capture group
\*   OptNamedSource  /(?<n>a)?1/   one named, optional capture group
DigitsSource == "\\d+"
OptNamedSource == "(?<n>a)?1"
Sources == {DigitsSource, OptNamedSource}
FlagSets == SUBSET {"g", "y"}

Null == [found |-> FALSE, parts |-> <<>>, index |-> 0,
         groups |-> [defined |-> FALSE, map |-> {}], input |-> <<>>]

RECURSIVE DigitsEnd(_, _)
DigitsEnd(s, j) == IF j < Len(s) /\ s[j + 1] = "1" THEN DigitsEnd(s, j + 1) ELSE j

\* Does the pattern match at position i, and where does the match end.
MatchAt(source, s, i) ==
  IF source = DigitsSource
  THEN IF i < Len(s) /\ s[i + 1] = "1"
       THEN [ok |-> TRUE, end |-> DigitsEnd(s, i), caps |-> <<>>,
             groups |-> [defined |-> FALSE, map |-> {}]]
       ELSE [ok |-> FALSE, end |-> i, caps |-> <<>>, groups |-> [defined |-> FALSE, map |-> {}]]
  ELSE IF i + 1 < Len(s) /\ s[i + 1] = "a" /\ s[i + 2] = "1"
       THEN [ok |-> TRUE, end |-> i + 2, caps |-> << <<"a">> >>,
             groups |-> [defined |-> TRUE, map |-> {<<"n", <<"a">>>>}]]
       ELSE IF i < Len(s) /\ s[i + 1] = "1"
            THEN [ok |-> TRUE, end |-> i + 1, caps |-> <<UndefinedGroup>>,
                  groups |-> [defined |-> TRUE, map |-> {<<"n", UndefinedGroup>>}]]
            ELSE [ok |-> FALSE, end |-> i, caps |-> <<>>, groups |-> [defined |-> FALSE, map |-> {}]]

SetMin(S) == CHOOSE x \in S : \A y \in S : x <= y

\* RegExp.prototype.exec / test on regex object r: the raw result and the
\* lastIndex the engine leaves in r.
RegExpBuiltinExec(r, s) ==
  LET usesLastIndex == "g" \in r.flags \/ "y" \in r.flags
      start == IF usesLastIndex THEN r.lastIndex ELSE 0
      candidates == IF start > Len(s) THEN {}
                    ELSE IF "y" \in r.flags
                         THEN {k \in {start} : MatchAt(r.source, s, k).ok}
                         ELSE {k \in start..Len(s) : MatchAt(r.source, s, k).ok}
  IN IF candidates = {}
     THEN [result |-> Null, lastIndex |-> IF usesLastIndex THEN 0 ELSE r.lastIndex]
     ELSE LET k == SetMin(candidates)
              m == MatchAt(r.source, s, k)
          IN [result |-> [found |-> TRUE,
                          parts |-> <<SubSeq(s, k + 1, m.end)>> \o m.caps,
                          index |-> k, groups |-> m.groups, input |-> s],
              lastIndex |-> IF usesLastIndex THEN m.end ELSE r.lastIndex]

\* structuredClone(regex): a new object, same source and flags, lastIndex 0.
structuredClone_alias(r) == r

structuredClone_keepLastIndex(r) ==
  [obj |-> "clone", source |-> r.source, flags |-> r.flags, lastIndex |-> r.lastIndex]

structuredClone(r) ==
  [obj |-> "clone", source |-> r.source, flags |-> r.flags, lastIndex |-> 0]

\* new RegExp(source, flags) in the worker.
NewRegExp(source, flags) ==
  [obj |-> "worker", source |-> source, flags |-> flags, lastIndex |-> 0]

\* String.prototype.matchAll(r): the iterator's own matcher, a fresh regex
\* that starts at r.lastIndex; r itself is not written.
MatchAll_offByOne(r) ==
  [obj |-> "matcher", source |-> r.source, flags |-> r.flags, lastIndex |-> r.lastIndex + 1]

MatchAll(r) ==
  [obj |-> "matcher", source |-> r.source, flags |-> r.flags, lastIndex |-> r.lastIndex]

resultToMatch_compact(result) ==
  [match |-> result.parts[1],
   index |-> result.index,
   groups |-> SelectSeq(Tail(result.parts), LAMBDA g : g # UndefinedGroup),
   namedGroups |-> IF result.groups.defined THEN result.groups.map ELSE {},
   input |-> result.input]

resultToMatch(result) ==
  [match |-> result.parts[1],
   index |-> result.index,
   groups |-> Tail(result.parts),
   namedGroups |-> IF result.groups.defined THEN result.groups.map ELSE {},
   input |-> result.input]

isTimeoutError_byName(error) == error.name = "TimeoutError"

isTimeoutError(error) == error.code = "ERR_SCRIPT_EXECUTION_TIMEOUT"

\* ------------------------------------------------- synchronous executor
\* What the wrapped computation does when run: it completes after c ticks,
\* never completes, or raises an error of its own.
Behaviours == [k : {"cost"}, c : 0..MaxCost] \cup {[k |-> "hang", c |-> 0], [k |-> "error", c |-> 0]}

\* functionTimeout(fn, {timeout: deadline})(): "returned", "timeout",
\* "error", or "hang" when nothing ever stops the computation.
functionTimeout(deadline, beh) ==
  CASE beh.k = "error" -> "error"
    [] beh.k = "hang" -> IF deadline.k = "undefined" THEN "hang" ELSE "timeout"
    [] OTHER -> IF deadline.k # "undefined" /\ beh.c > deadline.v THEN "timeout" ELSE "returned"

\* ------------------------------------------------------------------- state
VARIABLES
  regex,     \* the caller's regex object: [obj, source, flags, lastIndex]
  string,    \* the input string of the calls
  call,      \* the latest synchronous call and what it gave the caller
  iterable,  \* the object returned by the latest matches() call
  gen,       \* the generator obtained from it by [Symbol.iterator]()
  acall,     \* the isolated calls, one record per call slot
  hung       \* the thread is blocked in a computation nothing will stop

vars == <<regex, string, call, iterable, gen, acall, hung>>

AsyncIds == {1}

NoCall == [op |-> "none", timeout |-> Undefined, throwOnTimeout |-> FALSE,
           deadline |-> Undefined, exec |-> "none", status |-> "none",
           value |-> VUndefined, error |-> NoError, clones |-> 0]

NoIterable == [live |-> FALSE, timeout |-> PosInf, matchTimeout |-> PosInf, throwOnTimeout |-> FALSE]

NoMatcher == [obj |-> "matcher", source |-> DigitsSource, flags |-> {}, lastIndex |-> 0]

NoGen == [state |-> "none", remainingTimeout |-> PosInf, matcher |-> NoMatcher,
          deadline |-> Undefined, exec |-> "none", attempts |-> 0, exhausted |-> FALSE,
          yielded |-> <<>>, exit |-> "none", error |-> NoError, elapsed |-> Fin(0),
          pass |-> 0, clones |-> 0, idle |-> 0]

\* The engine writes lastIndex into the object it ran on; the caller sees the
\* write when that object is the caller's own regex.
StoreLastIndex(target, lastIndex) ==
  IF target.obj = regex.obj THEN [regex EXCEPT !.lastIndex = lastIndex] ELSE regex

\* The result of a try / catch around the executor (index.js 88-93, 106-111):
\* a timeout becomes the default value unless throwOnTimeout.
CatchSync_rethrow(exec, throwOnTimeout, value, default) ==
  CASE exec = "returned" -> [status |-> "returned", value |-> value, error |-> NoError]
    [] exec = "timeout" -> [status |-> "threw", value |-> VUndefined, error |-> ScriptTimeoutError]
    [] OTHER -> [status |-> "threw", value |-> VUndefined, error |-> EngineError]

CatchSync_swallow(exec, throwOnTimeout, value, default) ==
  CASE exec = "returned" -> [status |-> "returned", value |-> value, error |-> NoError]
    [] exec = "timeout" -> [status |-> "returned", value |-> default, error |-> NoError]
    [] OTHER -> [status |-> "threw", value |-> VUndefined, error |-> EngineError]

CatchSync(exec, throwOnTimeout, value, default) ==
  CASE exec = "returned" -> [status |-> "returned", value |-> value, error |-> NoError]
    [] exec = "timeout" ->
         IF isTimeoutError(ScriptTimeoutError) /\ ~throwOnTimeout
         THEN [status |-> "returned", value |-> default, error |-> NoError]
         ELSE [status |-> "threw", value |-> VUndefined, error |-> ScriptTimeoutError]
    [] OTHER ->
         IF isTimeoutError(EngineError) /\ ~throwOnTimeout
         THEN [status |-> "returned", value |-> default, error |-> NoError]
         ELSE [status |-> "threw", value |-> VUndefined, error |-> EngineError]

\* ----------------------------------------------------- isMatch, firstMatch
isMatch(timeout, throwOnTimeout, beh) ==
  /\ ~hung
  /\ LET deadline == normalizeTimeout(timeout)
         exec == functionTimeout(deadline, beh)
         clone == structuredClone(regex)
         r == RegExpBuiltinExec(clone, string)
         out == CatchSync(exec, throwOnTimeout, VBool(r.result.found), VBool(FALSE))
     IN IF exec = "hang"
        THEN /\ hung' = TRUE
             /\ call' = [NoCall EXCEPT !.op = "isMatch", !.timeout = timeout,
                                       !.throwOnTimeout = throwOnTimeout,
                                       !.deadline = deadline, !.exec = exec, !.clones = 1]
             /\ UNCHANGED regex
        ELSE /\ regex' = IF exec = "returned" THEN StoreLastIndex(clone, r.lastIndex) ELSE regex
             /\ call' = [op |-> "isMatch", timeout |-> timeout, throwOnTimeout |-> throwOnTimeout,
                         deadline |-> deadline, exec |-> exec, status |-> out.status,
                         value |-> out.value, error |-> out.error, clones |-> 1]
             /\ UNCHANGED hung
  /\ UNCHANGED <<string, iterable, gen, acall>>

firstMatch(timeout, throwOnTimeout, beh) ==
  /\ ~hung
  /\ LET deadline == normalizeTimeout(timeout)
         exec == functionTimeout(deadline, beh)
         clone == structuredClone(regex)
         r == RegExpBuiltinExec(clone, string)
         value == IF r.result.found THEN VMatch(resultToMatch(r.result)) ELSE VUndefined
         out == CatchSync(exec, throwOnTimeout, value, VUndefined)
     IN IF exec = "hang"
        THEN /\ hung' = TRUE
             /\ call' = [NoCall EXCEPT !.op = "firstMatch", !.timeout = timeout,
                                       !.throwOnTimeout = throwOnTimeout,
                                       !.deadline = deadline, !.exec = exec, !.clones = 1]
             /\ UNCHANGED regex
        ELSE /\ regex' = IF exec = "returned" THEN StoreLastIndex(clone, r.lastIndex) ELSE regex
             /\ call' = [op |-> "firstMatch", timeout |-> timeout, throwOnTimeout |-> throwOnTimeout,
                         deadline |-> deadline, exec |-> exec, status |-> out.status,
                         value |-> out.value, error |-> out.error, clones |-> 1]
             /\ UNCHANGED hung
  /\ UNCHANGED <<string, iterable, gen, acall>>

\* ------------------------------------------------------------------ matches
\* !regex.global, the precondition check of matches and matchesAsync.
LacksGlobalFlag_never(r) == FALSE

LacksGlobalFlag(r) == "g" \notin r.flags

\* matches(regex, string, options): the global-flag check, then the iterable.
matches(timeout, matchTimeout, throwOnTimeout) ==
  /\ ~hung
  /\ IF LacksGlobalFlag(regex)
     THEN /\ call' = [NoCall EXCEPT !.op = "matches", !.timeout = timeout,
                                    !.throwOnTimeout = throwOnTimeout,
                                    !.status = "threw", !.error = GlobalFlagError]
          /\ UNCHANGED <<iterable, gen>>
     ELSE /\ call' = [NoCall EXCEPT !.op = "matches", !.timeout = timeout,
                                    !.throwOnTimeout = throwOnTimeout,
                                    !.status = "returned"]
          /\ iterable' = [live |-> TRUE,
                          timeout |-> Default(timeout, PosInf),
                          matchTimeout |-> Default(matchTimeout, PosInf),
                          throwOnTimeout |-> throwOnTimeout]
          /\ gen' = NoGen
  /\ UNCHANGED <<regex, string, acall, hung>>

\* An iterable that hands back the generator it already has.
SymbolIterator_resume ==
  /\ ~hung
  /\ iterable.live
  /\ gen' = IF gen.state = "none"
            THEN [NoGen EXCEPT !.state = "suspendedStart", !.pass = 1]
            ELSE [gen EXCEPT !.pass = IF Len(gen.yielded) >= 1 \/ gen.pass = 2 THEN 2 ELSE 1]
  /\ UNCHANGED <<regex, string, call, iterable, acall, hung>>

\* iterable[Symbol.iterator](): a new generator, suspended at its start.
\* pass tells the iterable's first generator (1) from one made after an
\* earlier generator of the same iterable had yielded an element (2).
SymbolIterator ==
  /\ ~hung
  /\ iterable.live
  /\ gen' = [NoGen EXCEPT !.state = "suspendedStart",
                          !.pass = IF Len(gen.yielded) >= 1 \/ gen.pass = 2 THEN 2 ELSE 1]
  /\ UNCHANGED <<regex, string, call, iterable, acall, hung>>

\* The deadline of one attempt (index.js 144-146).
AttemptDeadline(timeout, matchTimeout, remainingTimeout) ==
  IF timeout # PosInf \/ matchTimeout # PosInf
  THEN normalizeTimeout(MathMin(remainingTimeout, matchTimeout))
  ELSE Undefined

BudgetExhausted_never(timeout, remainingTimeout) == FALSE

BudgetExhausted_strict(timeout, remainingTimeout) ==
  /\ timeout # PosInf
  /\ \/ remainingTimeout.k = "ninf"
     \/ remainingTimeout.k = "fin" /\ remainingTimeout.v < 0

\* The pre-attempt check (index.js 133).
BudgetExhausted(timeout, remainingTimeout) ==
  timeout # PosInf /\ LeqZero(remainingTimeout)

\* A stopwatch started when the generator was, so that the time the consumer
\* took is in the measure.
Elapsed_wallClock(g, beh) == g.idle + beh.c

\* What end() measures: timeSpan() is started right before nextMatch() and
\* read right after it (index.js 153-155), so it is the time of the attempt.
Elapsed(g, beh) == beh.c

GenMatcher_perAttempt(g) ==
  [matcher |-> MatchAll(structuredClone(regex)), cloned |-> TRUE]

\* The iterator the loop pulls from: string.matchAll(structuredClone(regex)),
\* made when the generator body starts (index.js 127) and kept from then on.
GenMatcher(g) ==
  IF g.state = "suspendedStart"
  THEN [matcher |-> MatchAll(structuredClone(regex)), cloned |-> TRUE]
  ELSE [matcher |-> g.matcher, cloned |-> FALSE]

\* A loop that tests the budget again right after the decrement, before it
\* looks at the done signal.
GenNext_recheck(beh) ==
  /\ ~hung
  /\ gen.state \in {"suspendedStart", "suspendedYield"}
  /\ LET starting == gen.state = "suspendedStart"
         matcher == GenMatcher(gen).matcher
         remainingTimeout == IF starting THEN iterable.timeout ELSE gen.remainingTimeout
         g0 == [gen EXCEPT !.matcher = matcher, !.remainingTimeout = remainingTimeout,
                           !.clones = IF GenMatcher(gen).cloned THEN @ + 1 ELSE @]
         timedOut(g) == IF iterable.throwOnTimeout
                        THEN [g EXCEPT !.state = "completed", !.exit = "threw", !.exhausted = TRUE,
                                       !.error = ScriptTimeoutError]
                        ELSE [g EXCEPT !.state = "completed", !.exit = "timeout", !.exhausted = TRUE]
     IN IF BudgetExhausted(iterable.timeout, remainingTimeout)
        THEN /\ gen' = [timedOut(g0) EXCEPT !.exec = "none"]
             /\ UNCHANGED <<regex, hung>>
        ELSE LET deadline == AttemptDeadline(iterable.timeout, iterable.matchTimeout, remainingTimeout)
                 exec == functionTimeout(deadline, beh)
                 r == RegExpBuiltinExec(matcher, string)
                 left == Minus(remainingTimeout, MathCeil(Fin(Elapsed(gen, beh))))
                 g1 == [g0 EXCEPT !.deadline = deadline, !.exec = exec, !.attempts = @ + 1]
                 g2 == [g1 EXCEPT !.elapsed = Fin(beh.c), !.remainingTimeout = left,
                                  !.matcher = [matcher EXCEPT !.lastIndex = r.lastIndex]]
             IN CASE exec = "hang" ->
                       /\ hung' = TRUE
                       /\ gen' = g1
                       /\ UNCHANGED regex
                  [] exec = "returned" ->
                       /\ gen' = IF BudgetExhausted(iterable.timeout, left)
                                 THEN timedOut(g2)
                                 ELSE IF r.result.found
                                      THEN [g2 EXCEPT !.state = "suspendedYield",
                                                      !.yielded = Append(@, resultToMatch(r.result))]
                                      ELSE [g2 EXCEPT !.state = "completed", !.exit = "done"]
                       /\ regex' = StoreLastIndex(matcher, r.lastIndex)
                       /\ UNCHANGED hung
                  [] OTHER ->
                       LET out == CatchSync(exec, iterable.throwOnTimeout, VUndefined, VUndefined)
                       IN /\ gen' = IF out.status = "threw"
                                    THEN [g1 EXCEPT !.state = "completed", !.exit = "threw", !.error = out.error]
                                    ELSE [g1 EXCEPT !.state = "completed", !.exit = "timeout"]
                          /\ UNCHANGED <<regex, hung>>
  /\ UNCHANGED <<string, call, iterable, acall>>

\* generator.next(): the body runs from where it is suspended to the next
\* yield, return or throw; that is one turn of the while loop.
GenNext(beh) ==
  /\ ~hung
  /\ gen.state \in {"suspendedStart", "suspendedYield"}
  /\ LET starting == gen.state = "suspendedStart"
         matcher == GenMatcher(gen).matcher
         remainingTimeout == IF starting THEN iterable.timeout ELSE gen.remainingTimeout
         g0 == [gen EXCEPT !.matcher = matcher, !.remainingTimeout = remainingTimeout,
                           !.clones = IF GenMatcher(gen).cloned THEN @ + 1 ELSE @]
     IN IF BudgetExhausted(iterable.timeout, remainingTimeout)
        THEN /\ gen' = IF iterable.throwOnTimeout
                       THEN [g0 EXCEPT !.state = "completed", !.exit = "threw", !.exhausted = TRUE,
                                       !.error = ScriptTimeoutError, !.exec = "none"]
                       ELSE [g0 EXCEPT !.state = "completed", !.exit = "timeout", !.exhausted = TRUE,
                                       !.exec = "none"]
             /\ UNCHANGED <<regex, hung>>
        ELSE LET deadline == AttemptDeadline(iterable.timeout, iterable.matchTimeout, remainingTimeout)
                 exec == functionTimeout(deadline, beh)
                 r == RegExpBuiltinExec(matcher, string)
                 g1 == [g0 EXCEPT !.deadline = deadline, !.exec = exec, !.attempts = @ + 1]
             IN CASE exec = "hang" ->
                       /\ hung' = TRUE
                       /\ gen' = g1
                       /\ UNCHANGED regex
                  [] exec = "returned" ->
                       /\ gen' = IF r.result.found
                                 THEN [g1 EXCEPT !.state = "suspendedYield",
                                                 !.elapsed = Fin(beh.c),
                                                 !.remainingTimeout = Minus(remainingTimeout, MathCeil(Fin(Elapsed(gen, beh)))),
                                                 !.matcher = [matcher EXCEPT !.lastIndex = r.lastIndex],
                                                 !.yielded = Append(@, resultToMatch(r.result))]
                                 ELSE [g1 EXCEPT !.state = "completed", !.exit = "done",
                                                 !.elapsed = Fin(beh.c),
                                                 !.remainingTimeout = Minus(remainingTimeout, MathCeil(Fin(Elapsed(gen, beh)))),
                                                 !.matcher = [matcher EXCEPT !.lastIndex = r.lastIndex]]
                       /\ regex' = StoreLastIndex(matcher, r.lastIndex)
                       /\ UNCHANGED hung
                  [] OTHER ->
                       LET out == CatchSync(exec, iterable.throwOnTimeout, VUndefined, VUndefined)
                       IN /\ gen' = IF out.status = "threw"
                                    THEN [g1 EXCEPT !.state = "completed", !.exit = "threw", !.error = out.error]
                                    ELSE [g1 EXCEPT !.state = "completed", !.exit = "timeout"]
                          /\ UNCHANGED <<regex, hung>>
  /\ UNCHANGED <<string, call, iterable, acall>>

\* The consumer takes a tick of time over an element before it pulls again;
\* the generator is suspended at its yield (index.js 161) meanwhile.
ConsumerDelay ==
  /\ ~hung
  /\ gen.state \in {"suspendedStart", "suspendedYield"}
  /\ gen.idle < MaxCost
  /\ gen' = [gen EXCEPT !.idle = @ + 1]
  /\ UNCHANGED <<regex, string, call, iterable, acall, hung>>

\* generator.return(): the consumer stops early (break, or return()).
GenReturn ==
  /\ ~hung
  /\ gen.state \in {"suspendedStart", "suspendedYield"}
  /\ gen' = [gen EXCEPT !.state = "completed", !.exit = "returned"]
  /\ UNCHANGED <<regex, string, call, iterable, acall, hung>>

\* ------------------------------------------------------------ the workers
\* Each worker builds its own regex from the source text and the flags.
isMatchWorker(source, flags, s) ==
  VBool(RegExpBuiltinExec(NewRegExp(source, flags), s).result.found)

firstMatchWorker_noSlice(source, flags, s) ==
  LET result == RegExpBuiltinExec(NewRegExp(source, flags), s).result
  IN IF ~result.found
     THEN VUndefined
     ELSE VMatch([match |-> result.parts[1],
                  index |-> result.index,
                  groups |-> result.parts,
                  namedGroups |-> IF result.groups.defined THEN result.groups.map ELSE {},
                  input |-> result.input])

firstMatchWorker(source, flags, s) ==
  LET result == RegExpBuiltinExec(NewRegExp(source, flags), s).result
  IN IF ~result.found
     THEN VUndefined
     ELSE VMatch([match |-> result.parts[1],
                  index |-> result.index,
                  groups |-> Tail(result.parts),
                  namedGroups |-> IF result.groups.defined THEN result.groups.map ELSE {},
                  input |-> result.input])

RECURSIVE MatchAllFrom(_, _)
MatchAllFrom(matcher, s) ==
  LET r == RegExpBuiltinExec(matcher, s)
  IN IF ~r.result.found
     THEN <<>>
     ELSE IF "g" \notin matcher.flags
          THEN <<r.result>>
          ELSE <<r.result>> \o MatchAllFrom([matcher EXCEPT !.lastIndex = r.lastIndex], s)

matchesWorker_firstOnly(source, flags, s) ==
  LET first == firstMatchWorker(source, flags, s)
  IN IF first.t = "Match" THEN <<first.m>> ELSE <<>>

\* The sequence the worker generator yields.
matchesWorker(source, flags, s) ==
  LET all == MatchAllFrom(MatchAll(NewRegExp(source, flags)), s)
  IN [k \in 1..Len(all) |->
        [match |-> all[k].parts[1],
         index |-> all[k].index,
         groups |-> Tail(all[k].parts),
         namedGroups |-> IF all[k].groups.defined THEN all[k].groups.map ELSE {},
         input |-> all[k].input]]

\* ------------------------------------------------------ isolated regime
NoAsync == [op |-> "none", timeout |-> Undefined, throwOnTimeout |-> FALSE,
            pc |-> "idle", controller |-> FALSE, aborted |-> FALSE,
            abortedAtDispatch |-> FALSE, dispatched |-> 0,
            timer |-> "none", cleanup |-> "undefined", cleanupCalls |-> 0,
            worker |-> "none", reply |-> VUndefined, workerError |-> NoError,
            yielded |-> <<>>, outcome |-> "none", status |-> "none", value |-> VUndefined,
            error |-> NoError, lastNext |-> "none"]

handleAsyncTimeout_armsToo(timeout) ==
  IF timeout.k = "undefined" \/ IsNaN(timeout)
  THEN [abort |-> FALSE, timer |-> "none", cleanup |-> "undefined"]
  ELSE IF ~IsFinite(timeout) /\ ~LeqZero(timeout)
       THEN [abort |-> FALSE, timer |-> "none", cleanup |-> "noop"]
       ELSE [abort |-> LeqZero(timeout), timer |-> "armed", cleanup |-> "clearTimeout"]

handleAsyncTimeout_noAbort(timeout) ==
  IF timeout.k = "undefined" \/ IsNaN(timeout)
  THEN [abort |-> FALSE, timer |-> "none", cleanup |-> "undefined"]
  ELSE IF LeqZero(timeout) \/ ~IsFinite(timeout)
       THEN [abort |-> FALSE, timer |-> "none", cleanup |-> "noop"]
       ELSE [abort |-> FALSE, timer |-> "armed", cleanup |-> "clearTimeout"]

\* handleAsyncTimeout(controller, timeout): whether it aborts the token at
\* once, whether it arms a timer, and the cleanup it returns.
handleAsyncTimeout(timeout) ==
  IF timeout.k = "undefined" \/ IsNaN(timeout)
  THEN [abort |-> FALSE, timer |-> "none", cleanup |-> "undefined"]
  ELSE IF LeqZero(timeout) \/ ~IsFinite(timeout)
       THEN [abort |-> LeqZero(timeout), timer |-> "none", cleanup |-> "noop"]
       ELSE [abort |-> FALSE, timer |-> "armed", cleanup |-> "clearTimeout"]

\* handleAsyncError(error, throwOnTimeout, defaultValue).
handleAsyncError_wrongName(error, throwOnTimeout, defaultValue) ==
  IF error.name = "TimeoutError"
  THEN IF throwOnTimeout
       THEN [status |-> "threw", value |-> VUndefined, error |-> TimeoutError]
       ELSE [status |-> "returned", value |-> defaultValue, error |-> NoError]
  ELSE [status |-> "threw", value |-> VUndefined, error |-> error]

handleAsyncError_swallowAll(error, throwOnTimeout, defaultValue) ==
  IF throwOnTimeout
  THEN [status |-> "threw", value |-> VUndefined, error |-> TimeoutError]
  ELSE [status |-> "returned", value |-> defaultValue, error |-> NoError]

handleAsyncError(error, throwOnTimeout, defaultValue) ==
  IF error.name = "AbortError"
  THEN IF throwOnTimeout
       THEN [status |-> "threw", value |-> VUndefined, error |-> TimeoutError]
       ELSE [status |-> "returned", value |-> defaultValue, error |-> NoError]
  ELSE [status |-> "threw", value |-> VUndefined, error |-> error]

RunCleanup_noClear(c) ==
  IF c.cleanup = "undefined" THEN c ELSE [c EXCEPT !.cleanupCalls = @ + 1]

\* cleanup?.() applied to a call record.
RunCleanup(c) ==
  CASE c.cleanup = "undefined" -> c
    [] c.cleanup = "noop" -> [c EXCEPT !.cleanupCalls = @ + 1]
    [] OTHER -> [c EXCEPT !.cleanupCalls = @ + 1,
                          !.timer = IF @ = "armed" THEN "cleared" ELSE @]

\* A continuation of some call is ready to run; the host runs it before any
\* timer callback or worker message.
MicrotaskPending ==
  \E j \in DOMAIN acall : acall[j].pc = "awaiting" /\ acall[j].worker \in {"resolved", "rejected"}

SlotFree(i) == acall[i].pc = "idle"

\* withAsyncTimeout up to its await: the controller, the deadline handling,
\* then the dispatch to the worker with the controller's signal.
StartAsync(op, timeout, throwOnTimeout) ==
  LET h == handleAsyncTimeout(timeout)
  IN [NoAsync EXCEPT !.op = op, !.timeout = timeout, !.throwOnTimeout = throwOnTimeout,
                     !.pc = "awaiting", !.controller = TRUE, !.aborted = h.abort,
                     !.abortedAtDispatch = h.abort, !.dispatched = 1,
                     !.timer = h.timer, !.cleanup = h.cleanup,
                     !.worker = IF h.abort THEN "rejected" ELSE "pending",
                     !.workerError = IF h.abort THEN AbortError ELSE NoError]

isMatchAsync(i, timeout, throwOnTimeout) ==
  /\ ~hung
  /\ SlotFree(i)
  /\ acall' = [acall EXCEPT ![i] = StartAsync("isMatchAsync", timeout, throwOnTimeout)]
  /\ UNCHANGED <<regex, string, call, iterable, gen, hung>>

firstMatchAsync(i, timeout, throwOnTimeout) ==
  /\ ~hung
  /\ SlotFree(i)
  /\ acall' = [acall EXCEPT ![i] = StartAsync("firstMatchAsync", timeout, throwOnTimeout)]
  /\ UNCHANGED <<regex, string, call, iterable, gen, hung>>

\* A matchesAsync that sets up the deadline and the worker when it is called.
matchesAsync_eager(i, timeout, throwOnTimeout) ==
  /\ ~hung
  /\ SlotFree(i)
  /\ acall' = [acall EXCEPT ![i] = StartAsync("matchesAsync", timeout, throwOnTimeout)]
  /\ UNCHANGED <<regex, string, call, iterable, gen, hung>>

\* matchesAsync(...) only creates the async generator; nothing runs yet.
matchesAsync(i, timeout, throwOnTimeout) ==
  /\ ~hung
  /\ SlotFree(i)
  /\ acall' = [acall EXCEPT ![i] = [NoAsync EXCEPT !.op = "matchesAsync", !.timeout = timeout,
                                                    !.throwOnTimeout = throwOnTimeout,
                                                    !.pc = "suspendedStart"]]
  /\ UNCHANGED <<regex, string, call, iterable, gen, hung>>

\* A request for the next element that does not look at the token.
AsyncNext_ignoresAbort(i) ==
  /\ ~hung
  /\ acall[i].op = "matchesAsync"
  /\ acall[i].pc \in {"suspendedStart", "suspendedYield"}
  /\ LET c == acall[i]
     IN IF c.pc = "suspendedStart"
        THEN IF LacksGlobalFlag(regex)
             THEN acall' = [acall EXCEPT ![i] = [c EXCEPT !.pc = "settled", !.status = "threw",
                                                          !.outcome = "config",
                                                          !.error = GlobalFlagError,
                                                          !.lastNext = "threw"]]
             ELSE acall' = [acall EXCEPT ![i] =
                       [StartAsync("matchesAsync", c.timeout, c.throwOnTimeout) EXCEPT !.dispatched = 1]]
        ELSE acall' = [acall EXCEPT ![i] =
                  [c EXCEPT !.pc = "awaiting",
                            !.worker = "pending", !.workerError = NoError]]
  /\ UNCHANGED <<regex, string, call, iterable, gen, hung>>

\* next() on the async generator: from the start, the global-flag check and
\* the set-up; then (and after every yield) the request for the next element.
AsyncNext(i) ==
  /\ ~hung
  /\ acall[i].op = "matchesAsync"
  /\ acall[i].pc \in {"suspendedStart", "suspendedYield"}
  /\ LET c == acall[i]
     IN IF c.pc = "suspendedStart"
        THEN IF LacksGlobalFlag(regex)
             THEN acall' = [acall EXCEPT ![i] = [c EXCEPT !.pc = "settled", !.status = "threw",
                                                          !.outcome = "config",
                                                          !.error = GlobalFlagError,
                                                          !.lastNext = "threw"]]
             ELSE acall' = [acall EXCEPT ![i] =
                       [StartAsync("matchesAsync", c.timeout, c.throwOnTimeout) EXCEPT !.dispatched = 1]]
        ELSE acall' = [acall EXCEPT ![i] =
                  [c EXCEPT !.pc = "awaiting",
                            !.worker = IF c.aborted THEN "rejected" ELSE "pending",
                            !.workerError = IF c.aborted THEN AbortError ELSE NoError]]
  /\ UNCHANGED <<regex, string, call, iterable, gen, hung>>

\* next() on an async generator that has finished: it reports done and runs
\* nothing.
AsyncNextDone(i) ==
  /\ ~hung
  /\ acall[i].op = "matchesAsync"
  /\ acall[i].pc = "settled"
  /\ acall' = [acall EXCEPT ![i] = [@ EXCEPT !.lastNext = "done"]]
  /\ UNCHANGED <<regex, string, call, iterable, gen, hung>>

\* The worker's message arrives: the result, the next element or the end of
\* the stream, or an error raised by the computation.
WorkerReplies(i, fails) ==
  /\ ~hung
  /\ ~MicrotaskPending
  /\ acall[i].pc = "awaiting"
  /\ acall[i].worker = "pending"
  /\ LET c == acall[i]
         all == matchesWorker(regex.source, regex.flags, string)
         reply == CASE c.op = "isMatchAsync" -> isMatchWorker(regex.source, regex.flags, string)
                    [] c.op = "firstMatchAsync" -> firstMatchWorker(regex.source, regex.flags, string)
                    [] OTHER -> IF Len(c.yielded) < Len(all)
                                THEN VMatch(all[Len(c.yielded) + 1])
                                ELSE [t |-> "done", b |-> FALSE, m |-> NoMatch]
     IN acall' = [acall EXCEPT ![i] =
            IF fails
            THEN [c EXCEPT !.worker = "rejected", !.workerError = EngineError]
            ELSE [c EXCEPT !.worker = "resolved", !.reply = reply]]
  /\ UNCHANGED <<regex, string, call, iterable, gen, hung>>

TimerFires_sharedController(i) ==
  /\ ~hung
  /\ ~MicrotaskPending
  /\ acall[i].timer = "armed"
  /\ acall' = [j \in DOMAIN acall |->
         IF j = i \/ acall[j].controller
         THEN [acall[j] EXCEPT !.timer = IF j = i THEN "fired" ELSE @, !.aborted = TRUE,
                               !.worker = IF @ = "pending" THEN "rejected" ELSE @,
                               !.workerError = IF acall[j].worker = "pending" THEN AbortError ELSE @]
         ELSE acall[j]]
  /\ UNCHANGED <<regex, string, call, iterable, gen, hung>>

\* A timer callback after which a pending request stays pending.
TimerFires_tokenOnly(i) ==
  /\ ~hung
  /\ ~MicrotaskPending
  /\ acall[i].timer = "armed"
  /\ acall' = [acall EXCEPT ![i] = [@ EXCEPT !.timer = "fired", !.aborted = TRUE]]
  /\ UNCHANGED <<regex, string, call, iterable, gen, hung>>

\* The deadline timer fires: it aborts the token, and a pending request to
\* the worker rejects with the abort reason.
TimerFires(i) ==
  /\ ~hung
  /\ ~MicrotaskPending
  /\ acall[i].timer = "armed"
  /\ acall' = [acall EXCEPT ![i] =
         [@ EXCEPT !.timer = "fired", !.aborted = TRUE,
                   !.worker = IF @ = "pending" THEN "rejected" ELSE @,
                   !.workerError = IF acall[i].worker = "pending" THEN AbortError ELSE @]]
  /\ UNCHANGED <<regex, string, call, iterable, gen, hung>>

\* A continuation whose catch path forgets the cleanup.
Settle_noCleanupOnError(i) ==
  /\ ~hung
  /\ acall[i].pc = "awaiting"
  /\ acall[i].worker \in {"resolved", "rejected"}
  /\ LET c == acall[i]
         default == IF c.op = "isMatchAsync" THEN VBool(FALSE) ELSE VUndefined
         handled == handleAsyncError(c.workerError, c.throwOnTimeout, default)
         cleaned == RunCleanup(c)
     IN acall' = [acall EXCEPT ![i] =
            CASE c.worker = "rejected" ->
                   [c EXCEPT !.pc = "settled", !.status = handled.status,
                             !.value = handled.value, !.error = handled.error,
                             !.outcome = IF c.workerError.name = "AbortError"
                                         THEN "timeout" ELSE "error",
                             !.lastNext = IF c.op # "matchesAsync" THEN @
                                          ELSE IF handled.status = "threw" THEN "threw" ELSE "done"]
              [] c.op = "matchesAsync" /\ c.reply.t = "Match" ->
                   [c EXCEPT !.pc = "suspendedYield", !.worker = "none",
                             !.yielded = Append(@, c.reply.m), !.lastNext = "value"]
              [] OTHER ->
                   [cleaned EXCEPT !.pc = "settled", !.status = "returned", !.outcome = "completed",
                                   !.value = IF c.op = "matchesAsync" THEN VUndefined ELSE c.reply,
                                   !.lastNext = IF c.op = "matchesAsync" THEN "done" ELSE @]]
  /\ UNCHANGED <<regex, string, call, iterable, gen, hung>>

\* The continuation after the await: withAsyncTimeout's try / catch for the
\* two single-result operations, matchesAsync's try / catch / finally.
Settle(i) ==
  /\ ~hung
  /\ acall[i].pc = "awaiting"
  /\ acall[i].worker \in {"resolved", "rejected"}
  /\ LET c == acall[i]
         default == IF c.op = "isMatchAsync" THEN VBool(FALSE) ELSE VUndefined
         handled == handleAsyncError(c.workerError, c.throwOnTimeout, default)
         cleaned == RunCleanup(c)
     IN acall' = [acall EXCEPT ![i] =
            CASE c.worker = "rejected" ->
                   [cleaned EXCEPT !.pc = "settled", !.status = handled.status,
                                   !.value = handled.value, !.error = handled.error,
                                   !.outcome = IF c.workerError.name = "AbortError"
                                               THEN "timeout" ELSE "error",
                                   !.lastNext = IF c.op # "matchesAsync" THEN @
                                                ELSE IF handled.status = "threw" THEN "threw" ELSE "done"]
              [] c.op = "matchesAsync" /\ c.reply.t = "Match" ->
                   [c EXCEPT !.pc = "suspendedYield", !.worker = "none",
                             !.yielded = Append(@, c.reply.m), !.lastNext = "value"]
              [] OTHER ->
                   [cleaned EXCEPT !.pc = "settled", !.status = "returned", !.outcome = "completed",
                                   !.value = IF c.op = "matchesAsync" THEN VUndefined ELSE c.reply,
                                   !.lastNext = IF c.op = "matchesAsync" THEN "done" ELSE @]]
  /\ UNCHANGED <<regex, string, call, iterable, gen, hung>>

\* A return() whose finally block also aborts the token.
AsyncReturn_aborts(i) ==
  /\ ~hung
  /\ acall[i].op = "matchesAsync"
  /\ acall[i].pc \in {"suspendedStart", "suspendedYield"}
  /\ acall' = [acall EXCEPT ![i] =
         IF @.pc = "suspendedYield"
         THEN [RunCleanup(@) EXCEPT !.pc = "settled", !.status = "returned", !.outcome = "closed",
                                    !.aborted = TRUE]
         ELSE [@ EXCEPT !.pc = "settled", !.status = "returned", !.outcome = "closed"]]
  /\ UNCHANGED <<regex, string, call, iterable, gen, hung>>

\* A return() that leaves the generator without running its finally block.
AsyncReturn_noFinally(i) ==
  /\ ~hung
  /\ acall[i].op = "matchesAsync"
  /\ acall[i].pc \in {"suspendedStart", "suspendedYield"}
  /\ acall' = [acall EXCEPT ![i] =
         [@ EXCEPT !.pc = "settled", !.status = "returned", !.outcome = "closed"]]
  /\ UNCHANGED <<regex, string, call, iterable, gen, hung>>

\* return() on the async generator: the consumer stops early; a generator
\* suspended at a yield runs its finally block.
AsyncReturn(i) ==
  /\ ~hung
  /\ acall[i].op = "matchesAsync"
  /\ acall[i].pc \in {"suspendedStart", "suspendedYield"}
  /\ acall' = [acall EXCEPT ![i] =
         IF @.pc = "suspendedYield"
         THEN [RunCleanup(@) EXCEPT !.pc = "settled", !.status = "returned", !.outcome = "closed"]
         ELSE [@ EXCEPT !.pc = "settled", !.status = "returned", !.outcome = "closed"]]
  /\ UNCHANGED <<regex, string, call, iterable, gen, hung>>

\* ------------------------------------------------------------- the caller
\* The caller drops the result, the iterable and the generator it holds.
DropSync ==
  /\ ~hung
  /\ call # NoCall \/ iterable # NoIterable \/ gen # NoGen
  /\ call' = NoCall
  /\ iterable' = NoIterable
  /\ gen' = NoGen
  /\ UNCHANGED <<regex, string, acall, hung>>

\* The caller drops the outcome of a settled isolated call; its slot is free.
DropAsync(i) ==
  /\ ~hung
  /\ acall[i].pc = "settled"
  /\ acall' = [acall EXCEPT ![i] = NoAsync]
  /\ UNCHANGED <<regex, string, call, iterable, gen, hung>>

SyncFree == call = NoCall /\ iterable = NoIterable /\ gen = NoGen
AsyncFree == \A i \in AsyncIds : acall[i] = NoAsync

\* ---------------------------------------------------------- specifications
\* Spec: every regex and input, both regimes side by side, few option values.
\* SpecTiming: one regex, every option value, one operation at a time.
Init ==
  /\ regex \in [obj : {"caller"}, source : Sources, flags : FlagSets, lastIndex : 0..MaxLen]
  /\ string \in Strings
  /\ call = NoCall
  /\ iterable = NoIterable
  /\ gen = NoGen
  /\ acall = [i \in AsyncIds |-> NoAsync]
  /\ hung = FALSE

FewTimeouts == {Undefined, Ms(1)}
FewBehaviours == {[k |-> "cost", c |-> 0], [k |-> "hang", c |-> 0]}

Next ==
  \/ SyncFree /\ \E t \in FewTimeouts, th \in BOOLEAN, b \in FewBehaviours : isMatch(t, th, b)
  \/ SyncFree /\ \E t \in FewTimeouts, th \in BOOLEAN, b \in FewBehaviours : firstMatch(t, th, b)
  \/ SyncFree /\ \E t \in FewTimeouts, th \in BOOLEAN : matches(t, Undefined, th)
  \/ SymbolIterator
  \/ \E b \in FewBehaviours : GenNext(b)
  \/ GenReturn
  \/ DropSync
  \/ \E i \in AsyncIds, t \in FewTimeouts, th \in BOOLEAN : isMatchAsync(i, t, th)
  \/ \E i \in AsyncIds, t \in FewTimeouts, th \in BOOLEAN : firstMatchAsync(i, t, th)
  \/ \E i \in AsyncIds, t \in FewTimeouts, th \in BOOLEAN : matchesAsync(i, t, th)
  \/ \E i \in AsyncIds : AsyncNext(i)
  \/ \E i \in AsyncIds : WorkerReplies(i, FALSE)
  \/ \E i \in AsyncIds : TimerFires(i)
  \/ \E i \in AsyncIds : Settle(i)
  \/ \E i \in AsyncIds : AsyncReturn(i)
  \/ \E i \in AsyncIds : DropAsync(i)

Spec == Init /\ [][Next]_vars

TimingString == [i \in 1..MaxLen |-> "1"]

InitTiming ==
  /\ regex \in [obj : {"caller"}, source : {OptNamedSource}, flags : {{}, {"g"}}, lastIndex : {0}]
  /\ string = TimingString
  /\ call = NoCall
  /\ iterable = NoIterable
  /\ gen = NoGen
  /\ acall = [i \in AsyncIds |-> NoAsync]
  /\ hung = FALSE

Fresh == SyncFree /\ AsyncFree

NextTiming ==
  \/ Fresh /\ \E t \in TimeoutInputs, th \in BOOLEAN, b \in Behaviours : isMatch(t, th, b)
  \/ Fresh /\ \E t \in TimeoutInputs, th \in BOOLEAN, b \in Behaviours : firstMatch(t, th, b)
  \/ Fresh /\ \E t \in TimeoutInputs, mt \in TimeoutInputs, th \in BOOLEAN : matches(t, mt, th)
  \/ SymbolIterator
  \/ \E b \in Behaviours : GenNext(b)
  \/ GenReturn
  \/ DropSync
  \/ Fresh /\ \E i \in AsyncIds, t \in TimeoutInputs, th \in BOOLEAN : isMatchAsync(i, t, th)
  \/ Fresh /\ \E i \in AsyncIds, t \in TimeoutInputs, th \in BOOLEAN : firstMatchAsync(i, t, th)
  \/ Fresh /\ \E i \in AsyncIds, t \in TimeoutInputs, th \in BOOLEAN : matchesAsync(i, t, th)
  \/ \E i \in AsyncIds : AsyncNext(i)
  \/ \E i \in AsyncIds : AsyncNextDone(i)
  \/ \E i \in AsyncIds, fails \in BOOLEAN : WorkerReplies(i, fails)
  \/ \E i \in AsyncIds : TimerFires(i)
  \/ \E i \in AsyncIds : Settle(i)
  \/ \E i \in AsyncIds : AsyncReturn(i)
  \/ \E i \in AsyncIds : DropAsync(i)

SpecTiming == InitTiming /\ [][NextTiming]_vars

\* SpecResults: every regex and input, both regimes side by side, with
\* computations that complete at once; what each operation returns.
Completes == [k |-> "cost", c |-> 0]

NextResults ==
  \/ SyncFree /\ \E t \in FewTimeouts : isMatch(t, FALSE, Completes)
  \/ SyncFree /\ \E t \in FewTimeouts : firstMatch(t, FALSE, Completes)
  \/ SyncFree /\ \E t \in FewTimeouts : matches(t, Undefined, FALSE)
  \/ SymbolIterator
  \/ GenNext(Completes)
  \/ GenReturn
  \/ DropSync
  \/ \E i \in AsyncIds, t \in FewTimeouts : isMatchAsync(i, t, FALSE)
  \/ \E i \in AsyncIds, t \in FewTimeouts : firstMatchAsync(i, t, FALSE)
  \/ \E i \in AsyncIds, t \in FewTimeouts : matchesAsync(i, t, FALSE)
  \/ \E i \in AsyncIds : AsyncNext(i)
  \/ \E i \in AsyncIds : WorkerReplies(i, FALSE)
  \/ \E i \in AsyncIds : TimerFires(i)
  \/ \E i \in AsyncIds : Settle(i)
  \/ \E i \in AsyncIds : AsyncReturn(i)
  \/ \E i \in AsyncIds : DropAsync(i)

SpecResults == Init /\ [][NextResults]_vars

\* SpecConcurrent: two isolated calls in flight at once, on one regex.
ConcurrentIds == {1, 2}
ConcurrentTimeouts == {Undefined, Ms(0), Ms(1)}

InitConcurrent ==
  /\ regex = [obj |-> "caller", source |-> OptNamedSource, flags |-> {"g"}, lastIndex |-> 0]
  /\ string = TimingString
  /\ call = NoCall
  /\ iterable = NoIterable
  /\ gen = NoGen
  /\ acall = [i \in ConcurrentIds |-> NoAsync]
  /\ hung = FALSE

NextConcurrent ==
  \/ \E i \in ConcurrentIds, t \in ConcurrentTimeouts, th \in BOOLEAN : isMatchAsync(i, t, th)
  \/ \E i \in ConcurrentIds, t \in ConcurrentTimeouts, th \in BOOLEAN : firstMatchAsync(i, t, th)
  \/ \E i \in ConcurrentIds, t \in ConcurrentTimeouts, th \in BOOLEAN : matchesAsync(i, t, th)
  \/ \E i \in ConcurrentIds : AsyncNext(i)
  \/ \E i \in ConcurrentIds, fails \in BOOLEAN : WorkerReplies(i, fails)
  \/ \E i \in ConcurrentIds : TimerFires(i)
  \/ \E i \in ConcurrentIds : Settle(i)
  \/ \E i \in ConcurrentIds : AsyncReturn(i)
  \/ \E i \in ConcurrentIds : DropAsync(i)

SpecConcurrent == InitConcurrent /\ [][NextConcurrent]_vars

\* SpecEnum: synchronous enumerations alone, on every regex and input, with
\* every total timeout, a few per-match timeouts and every computation
\* behaviour.
MatchTimeoutInputs == {Undefined, NaN, Ms(1), Fin(0 - Scale - 1)}

NextEnum ==
  \/ SyncFree /\ \E t \in TimeoutInputs, mt \in MatchTimeoutInputs, th \in BOOLEAN : matches(t, mt, th)
  \/ SymbolIterator
  \/ \E b \in Behaviours : GenNext(b)
  \/ GenReturn
  \/ DropSync

SpecEnum == Init /\ [][NextEnum]_vars

\* The same enumerations on a machine where no attempt completes in less than
\* a tick: time-span never measures 0 (index.js 153-155).
CostlyBehaviours == {b \in Behaviours : b.k = "cost" => b.c >= 1}

NextCostly ==
  \/ SyncFree /\ \E t \in TimeoutInputs, mt \in MatchTimeoutInputs, th \in BOOLEAN : matches(t, mt, th)
  \/ SymbolIterator
  \/ \E b \in CostlyBehaviours : GenNext(b)
  \/ GenReturn
  \/ DropSync

SpecCostly == Init /\ [][NextCostly]_vars

\* Enumerations of one regex over one input by a consumer that takes its time
\* between pulls.
NextIdle ==
  \/ SyncFree /\ \E t \in TimeoutInputs, mt \in MatchTimeoutInputs, th \in BOOLEAN : matches(t, mt, th)
  \/ SymbolIterator
  \/ \E b \in Behaviours : GenNext(b)
  \/ ConsumerDelay
  \/ GenReturn
  \/ DropSync

SpecIdle == InitTiming /\ [][NextIdle]_vars

\* ------------------------------------------------------------------ claims
AtomicOps == {"isMatch", "firstMatch"}
DefaultOf(op) == IF op \in {"isMatch", "isMatchAsync"} THEN VBool(FALSE) ELSE VUndefined
Unbounded(t) == t \in {Undefined, NaN, PosInf}
NonPositive(t) == IsFinite(t) /\ t.v <= 0

\* The regex matches the input when matching starts at position 0.
MatchesFromStart ==
  IF "y" \in regex.flags
  THEN MatchAt(regex.source, string, 0).ok
  ELSE \E k \in 0..Len(string) : MatchAt(regex.source, string, k).ok

\* C1: no operation of either regime ever writes to the caller's regex: its
\* lastIndex (and every other field) is the same after every step.
C1_CallerRegexNeverWritten == [][regex' = regex]_vars

\* C1 witness: on a regex with the g flag whose lastIndex is 0, isMatch has
\* returned true (the engine advanced lastIndex on the object it ran on) and
\* an isolated call has completed as well.
C1_Witness ==
  /\ "g" \in regex.flags
  /\ regex.lastIndex = 0
  /\ call.op = "isMatch" /\ call.exec = "returned" /\ call.value = VBool(TRUE)
  /\ RegExpBuiltinExec(structuredClone(regex), string).lastIndex > 0
  /\ \E i \in AsyncIds : acall[i].pc = "settled" /\ acall[i].outcome = "completed"

\* C2: with throwOnTimeout false, a timeout signalled by the executor gives
\* false from isMatch, undefined from firstMatch and a silent end of a matches
\* enumeration; no timeout error reaches the caller.
C2_TimeoutGivesDefault ==
  /\ (call.op \in AtomicOps /\ ~call.throwOnTimeout /\ call.exec = "timeout")
       => /\ call.status = "returned"
          /\ call.value = DefaultOf(call.op)
          /\ call.error = NoError
  /\ (iterable.live /\ ~iterable.throwOnTimeout /\ gen.exec = "timeout")
       => /\ gen.state = "completed"
          /\ gen.exit = "timeout"
          /\ gen.error = NoError
  /\ (call.op \in AtomicOps /\ ~call.throwOnTimeout) => ~isTimeoutError(call.error)
  /\ (iterable.live /\ ~iterable.throwOnTimeout) => ~isTimeoutError(gen.error)

\* C2 witness: an attempt of an enumeration timed out after an element had
\* been yielded, throwOnTimeout false.
C2_Witness ==
  /\ iterable.live /\ ~iterable.throwOnTimeout
  /\ gen.exec = "timeout" /\ Len(gen.yielded) >= 1

\* C3: with throwOnTimeout true, every synchronous timeout is thrown with code
\* ERR_SCRIPT_EXECUTION_TIMEOUT: from isMatch and firstMatch, and from matches
\* on both paths (budget found exhausted before an attempt, attempt timed out).
C3_TimeoutThrows ==
  /\ (call.op \in AtomicOps /\ call.throwOnTimeout /\ call.exec = "timeout")
       => /\ call.status = "threw"
          /\ call.error.code = "ERR_SCRIPT_EXECUTION_TIMEOUT"
  /\ (iterable.live /\ iterable.throwOnTimeout /\ (gen.exec = "timeout" \/ gen.exhausted))
       => /\ gen.state = "completed"
          /\ gen.exit = "threw"
          /\ gen.error.code = "ERR_SCRIPT_EXECUTION_TIMEOUT"

\* C3 witness: the budget was found exhausted at the pre-attempt check after an
\* attempt had used it up, throwOnTimeout true.
C3_Witness ==
  /\ iterable.live /\ iterable.throwOnTimeout
  /\ gen.exhausted /\ gen.attempts >= 1 /\ gen.exit = "threw"

\* C4: an isolated call whose worker request rejected with the abort reason
\* settles with the default value (false / undefined / end of stream) when
\* throwOnTimeout is false, and with TimeoutError 'Timed out' when it is true.
C4_AbortGivesTimeoutOutcome ==
  \A i \in AsyncIds :
    (acall[i].pc = "settled" /\ acall[i].workerError = AbortError)
      => IF acall[i].throwOnTimeout
         THEN /\ acall[i].status = "threw"
              /\ acall[i].error.name = "TimeoutError"
              /\ acall[i].error.message = "Timed out"
         ELSE /\ acall[i].status = "returned"
              /\ acall[i].value = DefaultOf(acall[i].op)
              /\ acall[i].error = NoError

\* C4 witness: a matchesAsync stream was cancelled by its timer after it had
\* yielded an element, throwOnTimeout true.
C4_Witness ==
  \E i \in AsyncIds :
    /\ acall[i].op = "matchesAsync" /\ acall[i].pc = "settled"
    /\ acall[i].workerError = AbortError /\ acall[i].timer = "fired"
    /\ acall[i].throwOnTimeout /\ Len(acall[i].yielded) >= 1

\* C5: on a regex without the global flag, matches throws the configuration
\* error at the call and matchesAsync at its first pull, for every option
\* value; no element is produced, no engine step or worker request is made, no
\* timer is armed and no token is created or cancelled.
C5_GlobalFlagRequired ==
  ("g" \notin regex.flags) =>
    /\ call.op = "matches" => (call.status = "threw" /\ call.error = GlobalFlagError)
    /\ ~iterable.live
    /\ gen = NoGen
    /\ \A i \in AsyncIds :
         acall[i].op = "matchesAsync" =>
           /\ acall[i].pc \in {"suspendedStart", "settled"}
           /\ (acall[i].pc = "settled" /\ acall[i].outcome # "closed")
                => (acall[i].status = "threw" /\ acall[i].error = GlobalFlagError)
           /\ acall[i].yielded = <<>>
           /\ acall[i].dispatched = 0
           /\ acall[i].timer = "none"
           /\ ~acall[i].controller
           /\ ~acall[i].aborted

\* C5 witness: matchesAsync with a timeout <= 0 failed with the configuration
\* error on a regex without the global flag.
C5_Witness ==
  /\ "g" \notin regex.flags
  /\ \E i \in AsyncIds :
       /\ acall[i].op = "matchesAsync" /\ acall[i].pc = "settled"
       /\ LeqZero(acall[i].timeout)
       /\ acall[i].error = GlobalFlagError

\* C6: with timeout absent, NaN or +Infinity (and matchTimeout unbounded for
\* matches) no deadline is passed to the executor, no timer is armed, no token
\* is cancelled, and no timeout outcome is ever produced.
C6_UnboundedNeverTimesOut ==
  /\ (call.op \in AtomicOps /\ Unbounded(call.timeout))
       => /\ call.deadline = Undefined
          /\ call.exec # "timeout"
          /\ ~isTimeoutError(call.error)
  /\ (iterable.live /\ Unbounded(iterable.timeout) /\ Unbounded(iterable.matchTimeout))
       => /\ gen.deadline = Undefined
          /\ gen.exec # "timeout"
          /\ ~gen.exhausted
          /\ gen.exit \notin {"timeout", "threw"} \/ gen.error = EngineError
  /\ \A i \in AsyncIds :
       (acall[i].op # "none" /\ Unbounded(acall[i].timeout))
         => /\ acall[i].timer = "none"
            /\ ~acall[i].aborted
            /\ acall[i].outcome # "timeout"
            /\ acall[i].workerError # AbortError
            /\ acall[i].error # TimeoutError

\* C6 witness: an enumeration with timeout NaN is blocked in its second
\* attempt, which never completes and which nothing interrupts.
C6_Witness ==
  /\ hung
  /\ iterable.live /\ iterable.timeout = NaN
  /\ gen.attempts >= 2 /\ gen.deadline = Undefined

\* C7 as stated: in all three synchronous operations a timeout of 0 or a
\* negative value becomes a deadline of at least 1 unit and is never treated
\* as 'always time out': without an executor timeout there is no timeout
\* outcome.
C7_Original ==
  /\ (call.op \in AtomicOps /\ NonPositive(call.timeout))
       => /\ IsFinite(call.deadline) /\ call.deadline.v >= Scale
          /\ call.exec = "returned" => (call.status = "returned" /\ call.error = NoError)
  /\ (iterable.live /\ NonPositive(iterable.timeout) /\ gen.exec # "timeout")
       => gen.exit \notin {"timeout", "threw"} \/ gen.error = EngineError

\* C7 amended: isMatch and firstMatch turn a timeout of 0 or a negative finite
\* value into the deadline max(1, trunc(|timeout|)) and return the normal
\* result of a computation that completes within it; matches with a total
\* timeout <= 0 starts no attempt: its first pull finds the budget exhausted.
C7_Amended ==
  /\ (call.op \in AtomicOps /\ NonPositive(call.timeout))
       => /\ IsFinite(call.deadline) /\ call.deadline.v >= Scale
          /\ call.exec = "returned"
               => /\ call.status = "returned" /\ call.error = NoError
                  /\ call.value.t = IF call.op = "isMatch" THEN "boolean"
                                    ELSE IF MatchesFromStart THEN "Match" ELSE "undefined"
                  /\ call.op = "isMatch" => call.value.b = MatchesFromStart
  /\ (iterable.live /\ NonPositive(iterable.timeout))
       => /\ gen.attempts = 0
          /\ gen.yielded = <<>>
          /\ gen.state = "completed" /\ gen.exit # "returned"
               => (gen.exhausted /\ gen.exit = IF iterable.throwOnTimeout THEN "threw" ELSE "timeout")

\* C7 witness: firstMatch with a negative timeout returned a Match.
C7_Witness ==
  /\ call.op = "firstMatch" /\ NonPositive(call.timeout) /\ call.timeout.v < 0
  /\ call.exec = "returned" /\ call.value.t = "Match"

\* C8: an isolated call with timeout <= 0 cancels its token before the worker
\* request is made, arms no timer, and settles with a timeout outcome whatever
\* the input (for matchesAsync: once the global-flag check has passed).
C8_NonPositiveCancelsAtOnce ==
  \A i \in AsyncIds :
    (acall[i].op # "none" /\ LeqZero(acall[i].timeout))
      => /\ acall[i].timer = "none"
         /\ acall[i].yielded = <<>>
         /\ acall[i].controller
              => /\ acall[i].aborted /\ acall[i].abortedAtDispatch
                 /\ acall[i].workerError = AbortError
                 /\ acall[i].pc \in {"awaiting", "settled"}
                 /\ acall[i].pc = "settled"
                      => /\ acall[i].outcome = "timeout"
                         /\ IF acall[i].throwOnTimeout
                            THEN acall[i].status = "threw" /\ acall[i].error = TimeoutError
                            ELSE acall[i].status = "returned"
                                 /\ acall[i].value = DefaultOf(acall[i].op)
         /\ (acall[i].op # "matchesAsync" \/ (acall[i].dispatched > 0))
              => acall[i].controller
         /\ (acall[i].op = "matchesAsync" /\ "g" \in regex.flags /\ acall[i].pc = "settled"
               /\ acall[i].outcome # "closed")
              => acall[i].controller

\* C8 witness: isMatchAsync with timeout <= 0 resolved to false on an input the
\* regex matches.
C8_Witness ==
  \E i \in AsyncIds :
    /\ acall[i].op = "isMatchAsync" /\ LeqZero(acall[i].timeout)
    /\ acall[i].pc = "settled" /\ acall[i].value = VBool(FALSE)
    /\ MatchesFromStart

\* C9: the deadline normalizeTimeout gives is 'unbounded' for an absent, NaN or
\* non-finite timeout and max(1, trunc(|timeout|)) otherwise, an integer >= 1.
ExpectedDeadline(t) ==
  IF t.k # "fin" THEN Undefined
  ELSE LET whole == Abs(t.v) \div Scale
       IN Fin(Scale * (IF whole < 1 THEN 1 ELSE whole))

C9_NormalizeTimeout ==
  call.op \in AtomicOps =>
    /\ call.deadline = ExpectedDeadline(call.timeout)
    /\ call.deadline # Undefined
         => (call.deadline.k = "fin" /\ call.deadline.v >= Scale /\ call.deadline.v % Scale = 0)

\* C9 witness: a negative fractional timeout whose magnitude is below 1 unit
\* was clamped to 1 unit.
C9_Witness ==
  /\ call.op = "isMatch"
  /\ call.timeout.k = "fin" /\ call.timeout.v < 0 /\ Abs(call.timeout.v) < Scale
  /\ call.deadline = Ms(1)

\* C10: when both complete without a timeout, a synchronous operation and its
\* isolated counterpart give the same result on the same regex and input.
C10_RegimesAgree ==
  \A i \in AsyncIds :
    /\ (call.op = "isMatch" /\ call.exec = "returned"
          /\ acall[i].op = "isMatchAsync" /\ acall[i].outcome = "completed")
         => call.value = acall[i].value
    /\ (call.op = "firstMatch" /\ call.exec = "returned"
          /\ acall[i].op = "firstMatchAsync" /\ acall[i].outcome = "completed")
         => call.value = acall[i].value
    /\ (gen.exit = "done" /\ acall[i].op = "matchesAsync" /\ acall[i].outcome = "completed")
         => gen.yielded = acall[i].yielded

\* C10 witness: matches and matchesAsync both ran to the end and yielded at
\* least two elements, one of them with a non-participating group.
C10_Witness ==
  \E i \in AsyncIds :
    /\ gen.exit = "done" /\ Len(gen.yielded) >= 2
    /\ acall[i].op = "matchesAsync" /\ acall[i].outcome = "completed"
    /\ \E k \in 1..Len(gen.yielded) : gen.yielded[k].groups = <<UndefinedGroup>>

\* The engine's match-all enumeration of the input from position 0 by a regex
\* with the caller's source and flags, each raw result written out as a Match.
EngineEnumeration ==
  LET all == MatchAllFrom(NewRegExp(regex.source, regex.flags), string)
  IN [k \in 1..Len(all) |->
        [match |-> all[k].parts[1],
         index |-> all[k].index,
         groups |-> SubSeq(all[k].parts, 2, Len(all[k].parts)),
         namedGroups |-> IF all[k].groups.defined THEN all[k].groups.map ELSE {},
         input |-> string]]

IsPrefix(a, b) == Len(a) <= Len(b) /\ \A k \in 1..Len(a) : a[k] = b[k]

\* C11: whatever the timeout, the matchTimeout and the elapsed times, the
\* elements a matches enumeration has yielded are a prefix of the enumeration
\* without a timeout: a timeout truncates, it never adds, reorders or alters.
C11_TimeoutOnlyTruncates ==
  iterable.live => IsPrefix(gen.yielded, EngineEnumeration)

\* C11 witness: an enumeration on a regex whose lastIndex is not 0 was cut by
\* a timeout after its first element, with more elements left.
C11_Witness ==
  /\ iterable.live /\ regex.lastIndex > 0
  /\ gen.exit = "timeout" /\ gen.exec = "timeout"
  /\ Len(gen.yielded) >= 1 /\ Len(gen.yielded) < Len(EngineEnumeration)

C13_CompleteEnumeration ==
  /\ (iterable.live /\ gen.exit = "done")
       => /\ gen.yielded = EngineEnumeration
          /\ gen.state = "completed"
  /\ \A i \in AsyncIds :
       (acall[i].op = "matchesAsync" /\ acall[i].outcome = "completed")
         => /\ acall[i].yielded = EngineEnumeration
            /\ acall[i].pc = "settled" /\ acall[i].status = "returned"

\* C13 witness: on a sticky global regex both enumerations ran to their end
\* with two elements each.
C13_Witness ==
  /\ "y" \in regex.flags
  /\ iterable.live /\ gen.exit = "done" /\ Len(gen.yielded) = 2
  /\ \E i \in AsyncIds :
       /\ acall[i].op = "matchesAsync" /\ acall[i].outcome = "completed"
       /\ Len(acall[i].yielded) = 2

\* The capture groups and the named groups a pattern declares.
CaptureGroupCount(source) == IF source = DigitsSource THEN 0 ELSE 1
DeclaredNames(source) == IF source = DigitsSource THEN {} ELSE {"n"}

\* The raw results of the engine on the input from position 0.
RawFirst == RegExpBuiltinExec(NewRegExp(regex.source, regex.flags), string).result
RawAll == MatchAllFrom(NewRegExp(regex.source, regex.flags), string)

\* Match m is built from the raw result r as the Match contract says.
BuiltFrom(m, r) ==
  /\ m.match = r.parts[1]
  /\ m.index = r.index
  /\ Len(m.groups) = Len(r.parts) - 1
  /\ \A k \in 1..Len(m.groups) : m.groups[k] = r.parts[k + 1]
  /\ m.input = r.input /\ m.input = string
  /\ m.namedGroups = (IF r.groups.defined THEN r.groups.map ELSE {})
  /\ Len(m.groups) = CaptureGroupCount(regex.source)
  /\ {p[1] : p \in m.namedGroups} = DeclaredNames(regex.source)
  /\ m.match = SubSeq(string, m.index + 1, m.index + Len(m.match))
  /\ \A k \in 1..Len(m.groups) :
       IF m.match[1] = "a" THEN m.groups[k] = <<"a">> ELSE m.groups[k] = UndefinedGroup

\* C14: every Match produced (firstMatch, firstMatchAsync, each element of
\* matches and matchesAsync) has match = r[0], index = r.index, groups = r[1..]
\* and input = r.input for its raw result r, namedGroups = r.groups or an empty
\* mapping; groups has one entry per declared capture group, a group that did
\* not participate being present as undefined at its position.
C14_MatchStructure ==
  /\ (call.op = "firstMatch" /\ call.value.t = "Match")
       => (RawFirst.found /\ BuiltFrom(call.value.m, RawFirst))
  /\ iterable.live
       => \A k \in 1..Len(gen.yielded) :
            k <= Len(RawAll) /\ BuiltFrom(gen.yielded[k], RawAll[k])
  /\ \A i \in AsyncIds :
       /\ (acall[i].op = "firstMatchAsync" /\ acall[i].value.t = "Match")
            => (RawFirst.found /\ BuiltFrom(acall[i].value.m, RawFirst))
       /\ \A k \in 1..Len(acall[i].yielded) :
            k <= Len(RawAll) /\ BuiltFrom(acall[i].yielded[k], RawAll[k])

\* C14 witness: firstMatch returned a Match whose only capture group did not
\* participate, and an isolated enumeration yielded such a Match as its
\* second element.
C14_Witness ==
  /\ call.op = "firstMatch" /\ call.value.t = "Match"
  /\ call.value.m.groups = <<UndefinedGroup>>
  /\ call.value.m.namedGroups = {<<"n", UndefinedGroup>>}
  /\ \E i \in AsyncIds :
       Len(acall[i].yielded) = 2 /\ acall[i].yielded[2].groups = <<UndefinedGroup>>

\* What each operation gives when matching starts at position 0 of the input.
FromZeroValue(op) ==
  IF op \in {"isMatch", "isMatchAsync"}
  THEN VBool(RawFirst.found)
  ELSE IF RawFirst.found THEN VMatch(EngineEnumeration[1]) ELSE VUndefined

\* C15: the result of every operation is the one matching from position 0 of
\* the input gives, whatever lastIndex the caller's regex carries at the call:
\* it depends on the regex's source and flags and on the input only.
C15_LastIndexIgnored ==
  /\ (call.op \in AtomicOps /\ call.exec = "returned")
       => call.value = FromZeroValue(call.op)
  /\ (iterable.live /\ Len(gen.yielded) >= 1)
       => (RawFirst.found /\ gen.yielded[1].index = RawFirst.index
           /\ gen.yielded[1].match = RawFirst.parts[1])
  /\ (iterable.live /\ gen.exit = "done") => Len(gen.yielded) = Len(RawAll)
  /\ \A i \in AsyncIds :
       /\ (acall[i].op \in {"isMatchAsync", "firstMatchAsync"} /\ acall[i].outcome = "completed")
            => acall[i].value = FromZeroValue(acall[i].op)
       /\ Len(acall[i].yielded) >= 1
            => (RawFirst.found /\ acall[i].yielded[1].index = RawFirst.index)
       /\ (acall[i].op = "matchesAsync" /\ acall[i].outcome = "completed")
            => Len(acall[i].yielded) = Len(RawAll)

\* C15 witness: the caller's regex carries a lastIndex from which the engine,
\* run on that regex itself, would find nothing, and both firstMatch and
\* firstMatchAsync returned the match at position 0.
C15_Witness ==
  /\ regex.lastIndex > 0
  /\ ~RegExpBuiltinExec(regex, string).result.found
  /\ call.op = "firstMatch" /\ call.value.t = "Match" /\ call.value.m.index = 0
  /\ \E i \in AsyncIds :
       /\ acall[i].op = "firstMatchAsync" /\ acall[i].outcome = "completed"
       /\ acall[i].value.t = "Match" /\ acall[i].value.m.index = 0

\* C16: in all six operations an error of the computation that is not a
\* timeout or cancellation signal reaches the caller unchanged, throwOnTimeout
\* set or not: it is neither turned into the default value nor replaced by a
\* timeout error.
C16_OtherErrorsPropagate ==
  /\ (call.op \in AtomicOps /\ call.exec = "error")
       => (call.status = "threw" /\ call.error = EngineError)
  /\ (iterable.live /\ gen.exec = "error")
       => (gen.state = "completed" /\ gen.exit = "threw" /\ gen.error = EngineError)
  /\ \A i \in AsyncIds :
       (acall[i].pc = "settled" /\ acall[i].workerError = EngineError)
         => /\ acall[i].status = "threw"
            /\ acall[i].error = EngineError
            /\ acall[i].outcome = "error"

\* C16 witness: the worker of a matchesAsync stream failed after an element
\* had been yielded, with a timer armed and throwOnTimeout not set.
C16_Witness ==
  \E i \in AsyncIds :
    /\ acall[i].op = "matchesAsync" /\ acall[i].pc = "settled"
    /\ ~acall[i].throwOnTimeout /\ acall[i].timer = "cleared"
    /\ acall[i].workerError = EngineError /\ Len(acall[i].yielded) >= 1

\* C17: when the consumer ends a matchesAsync enumeration early (return(), or
\* break out of for-await) the call's timer is disarmed and return() reports
\* done; no armed timer of the call is left once the enumeration is over.
C17_EarlyReturnDisarmsTimer ==
  \A i \in AsyncIds :
    /\ (acall[i].op = "matchesAsync" /\ acall[i].outcome = "closed")
         => /\ acall[i].pc = "settled"
            /\ acall[i].status = "returned" /\ acall[i].value = VUndefined
            /\ acall[i].error = NoError
            /\ acall[i].timer # "armed"
            /\ (acall[i].dispatched > 0 /\ acall[i].cleanup # "undefined")
                 => acall[i].cleanupCalls = 1
    /\ (acall[i].op = "matchesAsync" /\ acall[i].pc = "settled")
         => acall[i].timer # "armed"

\* C17 witness: the consumer closed a stream after one element while the
\* call's timer was armed; the timer is now cleared and never fired.
C17_Witness ==
  \E i \in AsyncIds :
    /\ acall[i].op = "matchesAsync" /\ acall[i].outcome = "closed"
    /\ Len(acall[i].yielded) = 1 /\ acall[i].timer = "cleared"
    /\ ~acall[i].aborted

\* C18: isolated calls in flight together do not interfere: a call's token is
\* cancelled only by its own timer or its own timeout <= 0, its timer is
\* disarmed only by its own cleanup when it settles, and its result is the one
\* it gives alone, whatever the other call does and however the two interleave.
C18_CallsIndependent ==
  \A i \in ConcurrentIds :
    /\ acall[i].aborted => (acall[i].timer = "fired" \/ LeqZero(acall[i].timeout))
    /\ acall[i].workerError = AbortError => acall[i].aborted
    /\ acall[i].timer = "cleared" => (acall[i].pc = "settled" /\ acall[i].cleanupCalls = 1)
    /\ acall[i].timer # "none" => (IsFinite(acall[i].timeout) /\ acall[i].timeout.v > 0)
    /\ acall[i].outcome = "timeout" => acall[i].aborted
    /\ (acall[i].outcome = "completed" /\ acall[i].op # "matchesAsync")
         => acall[i].value = FromZeroValue(acall[i].op)
    /\ (acall[i].outcome = "completed" /\ acall[i].op = "matchesAsync")
         => acall[i].yielded = EngineEnumeration
    /\ (acall[i].pc = "awaiting" /\ acall[i].worker = "pending") => ~acall[i].aborted

\* C18 witness: the timer of one call has fired and that call is about to
\* settle as timed out, while the other call, started with no timeout, has
\* its request still pending and its token intact.
C18_Witness ==
  \E i \in ConcurrentIds : \E j \in ConcurrentIds \ {i} :
    /\ acall[i].timer = "fired" /\ acall[i].pc = "awaiting" /\ acall[i].worker = "rejected"
    /\ acall[j].pc = "awaiting" /\ acall[j].worker = "pending"
    /\ acall[j].timeout = Undefined /\ ~acall[j].aborted

FinitePositive(t) == IsFinite(t) /\ t.v > 0

\* C19: an operation called with a finite positive timeout never hangs, even
\* on a computation that would never complete: no synchronous operation is
\* left blocked in the engine, and an isolated call not yet settled always has
\* its timer armed or its token already cancelled.
C19_NeverHangs ==
  /\ (call.op \in AtomicOps /\ FinitePositive(call.timeout)) => call.exec # "hang"
  /\ (iterable.live /\ FinitePositive(iterable.timeout)) => gen.exec # "hang"
  /\ \A i \in AsyncIds :
       (FinitePositive(acall[i].timeout) /\ acall[i].dispatched > 0 /\ acall[i].pc # "settled")
         => (acall[i].timer = "armed" \/ acall[i].aborted)

\* The budget the next pull of the generator finds.
RemainingBefore ==
  IF gen.state = "suspendedStart" THEN iterable.timeout ELSE gen.remainingTimeout

ExhaustedBefore ==
  /\ iterable.live /\ iterable.timeout # PosInf
  /\ gen.state \in {"suspendedStart", "suspendedYield"}
  /\ LeqZero(RemainingBefore)

\* C20: in a matches enumeration with a bounded total timeout no attempt is
\* started on a budget <= 0: the pull that finds such a budget runs no engine
\* step and ends the sequence, silently or with the timeout error when
\* throwOnTimeout, so a used-up budget never becomes a new deadline.
C20_PreAttemptCheck ==
  [][/\ (gen'.attempts = gen.attempts + 1) => ~ExhaustedBefore
     /\ (ExhaustedBefore /\ gen' # gen /\ gen'.state = "completed" /\ gen'.exit # "returned")
          => /\ gen'.exhausted
             /\ gen'.attempts = gen.attempts
             /\ gen'.yielded = gen.yielded
             /\ gen'.deadline = gen.deadline
             /\ ~hung'
             /\ IF iterable.throwOnTimeout
                THEN gen'.exit = "threw" /\ gen'.error = ScriptTimeoutError
                ELSE gen'.exit = "timeout" /\ gen'.error = NoError]_vars

\* C20 witness: an attempt overran what was left of the budget, which went
\* below 0, and the next pull ended the sequence silently without an attempt.
C20_Witness ==
  /\ iterable.live /\ ~iterable.throwOnTimeout
  /\ gen.exhausted /\ gen.exit = "timeout"
  /\ gen.attempts >= 1 /\ gen.remainingTimeout.k = "fin" /\ gen.remainingTimeout.v < 0

\* The smaller of two deadlines, an absent one counting as unbounded.
SmallerBounded(a, b) ==
  IF a = Undefined THEN b
  ELSE IF b = Undefined THEN a
  ELSE IF a.v <= b.v THEN a ELSE b

\* C21: the deadline of every attempt of a matches enumeration is the smaller
\* of the remaining total budget and the per-match limit, each taken as a
\* deadline (absent, NaN and Infinity as unbounded): the remaining total alone
\* when matchTimeout is unbounded, the per-match limit alone when timeout is,
\* and no deadline only when both are unbounded.
C21_AttemptDeadline ==
  [][(gen'.attempts = gen.attempts + 1)
       => gen'.deadline = SmallerBounded(ExpectedDeadline(RemainingBefore),
                                         ExpectedDeadline(iterable.matchTimeout))]_vars

\* n ticks rounded up to whole milliseconds.
CeilTicks(n) == ((n + Scale - 1) \div Scale) * Scale

\* The step is a pull of the generator (next()), not a return() and not a new
\* generator.
Pulled ==
  /\ iterable.live
  /\ gen.state \in {"suspendedStart", "suspendedYield"}
  /\ gen' # gen /\ gen'.state # "none" /\ gen'.exit # "returned"
  /\ ~(gen'.state = "suspendedStart" /\ gen'.attempts = 0)
  /\ gen'.idle = gen.idle

\* C22: with a bounded total timeout, an attempt that completes takes its
\* measured elapsed time, rounded up to a whole millisecond, off the remaining
\* budget, once; no other step changes the budget, so it never increases.
C22_BudgetDecrement ==
  [][(Pulled /\ IsFinite(RemainingBefore))
       => /\ IsFinite(gen'.remainingTimeout)
          /\ gen'.remainingTimeout.v <= RemainingBefore.v
          /\ IF gen'.attempts = gen.attempts + 1 /\ gen'.exec = "returned"
             THEN gen'.remainingTimeout.v = RemainingBefore.v - CeilTicks(gen'.elapsed.v)
             ELSE gen'.remainingTimeout = RemainingBefore]_vars

\* C22 witness: the second attempt of an enumeration completed after a
\* fraction of a millisecond and the budget, already reduced by the first,
\* went down by a whole one.
C22_Witness ==
  /\ iterable.live /\ IsFinite(iterable.timeout)
  /\ gen.attempts = 2 /\ gen.exec = "returned"
  /\ gen.elapsed.v > 0 /\ gen.elapsed.v < Scale
  /\ IsFinite(gen.remainingTimeout) /\ gen.remainingTimeout.v <= iterable.timeout.v - 2 * Scale

\* The engine's answer to the attempt the next pull would make: no more
\* matches.
DoneSignal ==
  LET matcher == IF gen.state = "suspendedStart"
                 THEN MatchAll(structuredClone(regex)) ELSE gen.matcher
  IN ~RegExpBuiltinExec(matcher, string).result.found

\* C23: an attempt that returns the engine's done signal ends the sequence
\* normally, with no error, whatever throwOnTimeout is and whatever the
\* attempt's elapsed time left of the budget.
C23_DoneEndsNormally ==
  [][(Pulled /\ DoneSignal /\ gen'.attempts = gen.attempts + 1 /\ gen'.exec = "returned")
       => /\ gen'.state = "completed" /\ gen'.exit = "done"
          /\ gen'.error = NoError /\ ~gen'.exhausted
          /\ gen'.yielded = gen.yielded]_vars

\* C23 witness: under throwOnTimeout the attempt that reported done also
\* used up the budget, after an element had been yielded, and the sequence
\* ended normally.
C23_Witness ==
  /\ iterable.live /\ iterable.throwOnTimeout
  /\ gen.state = "completed" /\ gen.exit = "done" /\ gen.exec = "returned"
  /\ gen.elapsed.v > 0
  /\ IsFinite(gen.remainingTimeout) /\ gen.remainingTimeout.v <= 0
  /\ Len(gen.yielded) >= 1

\* The total timeout is a whole number of milliseconds, at least 1.
WholeTimeout ==
  /\ iterable.live /\ IsFinite(iterable.timeout)
  /\ iterable.timeout.v >= Scale /\ iterable.timeout.v % Scale = 0

\* C24: with a whole total timeout of T >= 1 ms and no attempt measured at
\* 0 ms, an enumeration starts at most T attempts and yields at most T
\* elements.
C24_AttemptBound ==
  WholeTimeout
    => /\ gen.attempts <= iterable.timeout.v \div Scale
       /\ Len(gen.yielded) <= iterable.timeout.v \div Scale

\* C24 witness: an enumeration with T >= 2 made T attempts, each yielding an
\* element, and the pre-attempt check refused the next one.
C24_Witness ==
  /\ WholeTimeout /\ iterable.timeout.v >= 2 * Scale
  /\ gen.attempts = iterable.timeout.v \div Scale
  /\ Len(gen.yielded) = gen.attempts
  /\ gen.state = "completed" /\ gen.exhausted

\* C25: an isolated call with a positive finite timeout that has settled, by
\* whatever path (result, cancellation, another error, the consumer closing
\* the stream), has no timer still pending: the timer it armed was cleared or
\* had fired.
C25_SettledLeavesNoTimer ==
  \A i \in AsyncIds :
    (acall[i].op # "none" /\ FinitePositive(acall[i].timeout) /\ acall[i].pc = "settled")
      => IF acall[i].controller
         THEN acall[i].timer \in {"cleared", "fired"}
         ELSE acall[i].timer = "none"

\* C25 witness: firstMatchAsync with a positive finite timeout settled on an
\* error of the computation that is not a timeout, and its timer was cleared
\* before it could fire.
C25_Witness ==
  \E i \in AsyncIds :
    /\ acall[i].op = "firstMatchAsync" /\ FinitePositive(acall[i].timeout)
    /\ acall[i].pc = "settled" /\ acall[i].outcome = "error"
    /\ acall[i].error = EngineError
    /\ acall[i].timer = "cleared" /\ ~acall[i].aborted

\* C26: the cleanup routine handleAsyncTimeout returned to an isolated call
\* is not invoked while the call is in progress and has been invoked exactly
\* once when the call has settled, by whatever path; invoking it again would
\* change nothing (the timer and the token stay as they are).
C26_CleanupExactlyOnce ==
  \A i \in AsyncIds :
    LET c == acall[i]
    IN /\ c.cleanup = "undefined" => c.cleanupCalls = 0
       /\ c.cleanup # "undefined"
            => /\ c.cleanupCalls = IF c.pc = "settled" THEN 1 ELSE 0
               /\ c.pc = "settled"
                    => [RunCleanup(c) EXCEPT !.cleanupCalls = c.cleanupCalls] = c

\* C26 witness: a stream was cancelled by its timer after an element had been
\* delivered, and settled with the cleanup run once, after the timer fired.
C26_Witness ==
  \E i \in AsyncIds :
    /\ acall[i].op = "matchesAsync" /\ acall[i].pc = "settled"
    /\ acall[i].outcome = "timeout" /\ acall[i].timer = "fired"
    /\ Len(acall[i].yielded) >= 1
    /\ acall[i].cleanup = "clearTimeout" /\ acall[i].cleanupCalls = 1

\* C27: in a matchesAsync enumeration the elements delivered stay delivered;
\* once the token is cancelled, or the enumeration is over for any reason, no
\* element is added; the timeout is reported (TimeoutError under
\* throwOnTimeout, the end of the stream otherwise) with no element in
\* between; and a next() after the end only reports done.
C27_StreamAfterEnd ==
  [][\A i \in AsyncIds :
       LET c == acall[i]
           d == acall'[i]
       IN (c.op = "matchesAsync" /\ d.op = "matchesAsync")
            => /\ IsPrefix(c.yielded, d.yielded)
               /\ (c.aborted \/ c.pc = "settled") => d.yielded = c.yielded
               /\ (c.pc # "settled" /\ d.outcome = "timeout")
                    => /\ d.pc = "settled" /\ d.yielded = c.yielded
                       /\ IF d.throwOnTimeout
                          THEN d.status = "threw" /\ d.error = TimeoutError /\ d.lastNext = "threw"
                          ELSE d.status = "returned" /\ d.lastNext = "done"
               /\ c.pc = "settled"
                    => /\ d.pc = "settled"
                       /\ d = [c EXCEPT !.lastNext = "done"]]_vars

\* C27 witness: under throwOnTimeout a stream delivered an element, was then
\* cancelled by its timer and raised TimeoutError; a later next() reported
\* done and the element is still there.
C27_Witness ==
  \E i \in AsyncIds :
    /\ acall[i].op = "matchesAsync" /\ acall[i].throwOnTimeout
    /\ acall[i].pc = "settled" /\ acall[i].outcome = "timeout"
    /\ acall[i].error = TimeoutError /\ acall[i].timer = "fired"
    /\ Len(acall[i].yielded) >= 1
    /\ acall[i].lastNext = "done"

\* C28: a call whose token was cancelled while it was in flight can only end
\* as a timeout: its request to the worker is rejected with the abort reason,
\* no result of the worker is taken after the cancellation, and once settled
\* it reports the default value, or TimeoutError under throwOnTimeout (a
\* stream the consumer closed itself reports nothing more).
C28_CancelledMeansTimeout ==
  \A i \in AsyncIds :
    LET c == acall[i]
    IN c.aborted
         => /\ c.pc = "awaiting" => (c.worker = "rejected" /\ c.workerError = AbortError)
            /\ c.pc = "suspendedYield" => c.worker = "none"
            /\ (c.pc = "settled" /\ c.outcome # "closed")
                 => /\ c.outcome = "timeout"
                    /\ IF c.throwOnTimeout
                       THEN c.status = "threw" /\ c.error = TimeoutError
                       ELSE c.status = "returned" /\ c.value = DefaultOf(c.op)

\* C28 witness: the timer of isMatchAsync fired before the worker replied, on
\* an input the regex matches, and the call resolved to false.
C28_Witness ==
  \E i \in AsyncIds :
    /\ acall[i].op = "isMatchAsync" /\ acall[i].timer = "fired" /\ acall[i].aborted
    /\ acall[i].pc = "settled" /\ acall[i].outcome = "timeout"
    /\ acall[i].value = VBool(FALSE) /\ MatchesFromStart

\* C29 as stated: the token of an isolated call is cancelled when its timer
\* has fired and also when the consumer has closed the enumeration early.
C29_Original ==
  \A i \in AsyncIds :
    /\ acall[i].timer = "fired" => acall[i].aborted
    /\ (acall[i].outcome = "closed" /\ acall[i].controller) => acall[i].aborted

\* C29 amended: the token of an isolated call goes from pending to cancelled
\* at most once and never back; it is cancelled when the deadline timer fires
\* and, for a timeout <= 0, when the call sets up; the consumer closing a
\* matchesAsync enumeration early disarms the timer and leaves the token as it
\* was.
C29_Amended ==
  [][\A i \in AsyncIds :
       LET c == acall[i]
           d == acall'[i]
       IN d.op # "none"
            => /\ c.aborted => d.aborted
               /\ (d.aborted /\ ~c.aborted)
                    => \/ c.timer = "armed" /\ d.timer = "fired"
                       \/ ~c.controller /\ d.controller /\ LeqZero(d.timeout)
               /\ (c.timer = "armed" /\ d.timer = "fired") => d.aborted
               /\ (~c.controller /\ d.controller /\ LeqZero(d.timeout)) => d.aborted
               /\ (d.outcome = "closed" /\ c.outcome # "closed")
                    => d.aborted = c.aborted /\ d.timer # "armed"]_vars

\* C29 witness: the consumer closed a stream after two elements; the timer
\* the call had armed is cleared and the token was never cancelled.
C29_Witness ==
  \E i \in AsyncIds :
    /\ acall[i].op = "matchesAsync" /\ acall[i].outcome = "closed" /\ acall[i].controller
    /\ Len(acall[i].yielded) = 2
    /\ acall[i].timer = "cleared" /\ acall[i].cleanupCalls = 1
    /\ ~acall[i].aborted

\* C30 as stated: a generator obtained from an iterable that has already
\* delivered elements does not start again at the first match of the input,
\* and, when the earlier enumeration used up a total timeout of 1 ms, has no
\* budget left to make an attempt.
C30_Original ==
  (iterable.live /\ gen.pass = 2)
    => /\ Len(gen.yielded) >= 1 => gen.yielded[1] # EngineEnumeration[1]
       /\ iterable.timeout = Ms(1) => gen.attempts = 0

\* C30 amended: the object matches() returns can be enumerated again: every
\* [Symbol.iterator]() gives a new generator, one that has yielded nothing and
\* made no attempt, and its first attempt matches from the beginning of the
\* input with the whole total timeout as its budget, whatever earlier
\* enumerations of the same object consumed.
C30_Amended ==
  [][/\ (iterable.live /\ gen.pass = 1 /\ gen'.pass = 2)
          => /\ gen'.state = "suspendedStart"
             /\ gen'.yielded = <<>> /\ gen'.attempts = 0
     /\ (Pulled /\ gen.pass = 2 /\ gen.state = "suspendedStart" /\ gen'.exec = "returned")
          => /\ gen'.attempts = 1
             /\ gen'.yielded = <<EngineEnumeration[1]>>
             /\ IsFinite(iterable.timeout)
                  => gen'.remainingTimeout.v = iterable.timeout.v - CeilTicks(gen'.elapsed.v)]_vars

\* C30 witness: with a total timeout of 1 ms and no attempt measured at 0 ms,
\* an enumeration delivered an element; a second enumeration of the same
\* object made an attempt and delivered the first match of the input again.
C30_Witness ==
  /\ iterable.live /\ iterable.timeout = Ms(1)
  /\ gen.pass = 2 /\ gen.exec = "returned" /\ gen.attempts = 1
  /\ gen.yielded = <<EngineEnumeration[1]>>

\* C31: matches() and [Symbol.iterator]() run no engine step and fix no
\* deadline; the number of attempts goes up only by a pull, by one, and never
\* once the generator is closed or finished. matchesAsync() creates no token,
\* arms no timer and sends nothing to a worker; that happens at the first
\* pull.
C31_Lazy ==
  [][/\ (iterable' # iterable /\ iterable'.live) => gen' = NoGen
     /\ (gen'.state = "suspendedStart" /\ gen.state # "suspendedStart")
          => /\ gen'.attempts = 0 /\ gen'.exec = "none"
             /\ gen'.deadline = Undefined /\ gen'.yielded = <<>>
     /\ (gen'.attempts # gen.attempts)
          => \/ gen'.attempts = 0
             \/ Pulled /\ gen'.attempts = gen.attempts + 1
     /\ \A i \in AsyncIds :
          LET c == acall[i]
              d == acall'[i]
          IN /\ (d.op = "matchesAsync" /\ d.pc = "suspendedStart")
                  => /\ ~d.controller /\ d.timer = "none"
                     /\ d.dispatched = 0 /\ d.worker = "none"
             /\ (d.op = "matchesAsync" /\ d.dispatched > c.dispatched)
                  => c.op = "matchesAsync" /\ c.pc = "suspendedStart" /\ d.pc = "awaiting"]_vars

\* C31 witness: matchesAsync was called with a positive finite timeout on an
\* input the regex matches and has not been pulled: no token, no timer, no
\* request to a worker.
C31_Witness ==
  \E i \in AsyncIds :
    /\ acall[i].op = "matchesAsync" /\ acall[i].pc = "suspendedStart"
    /\ FinitePositive(acall[i].timeout) /\ MatchesFromStart /\ "g" \in regex.flags
    /\ acall[i].timer = "none" /\ acall[i].dispatched = 0 /\ ~acall[i].controller

\* C32: isMatch and firstMatch duplicate the caller's regex once per call; a
\* matches enumeration duplicates it once, when its first pull starts the
\* generator, and never again; every later attempt runs on that duplicate
\* from where the attempt before left it, so an element lies at or after the
\* position reached and after the element before it.
C32_OneCloneKeptPosition ==
  [][/\ (call' # call /\ call'.op \in AtomicOps) => call'.clones = 1
     /\ gen'.clones <= 1
     /\ (gen'.clones # gen.clones)
          => \/ gen'.clones = 0
             \/ Pulled /\ gen.state = "suspendedStart"
     /\ (Pulled /\ gen.state = "suspendedStart")
          => gen'.clones = 1 /\ gen'.matcher.obj = "matcher"
     /\ (Pulled /\ gen.state = "suspendedYield" /\ gen'.exec = "returned")
          => /\ gen'.matcher.source = gen.matcher.source
             /\ gen'.matcher.flags = gen.matcher.flags
             /\ Len(gen'.yielded) > Len(gen.yielded)
                  => /\ gen'.matcher.lastIndex >= gen.matcher.lastIndex
                     /\ gen'.yielded[Len(gen'.yielded)].index >= gen.matcher.lastIndex
                     /\ gen'.yielded[Len(gen'.yielded)].index
                          > gen.yielded[Len(gen.yielded)].index]_vars

\* C32 witness: an enumeration has made two attempts on its one duplicate and
\* the second element lies after the first.
C32_Witness ==
  /\ iterable.live /\ gen.clones = 1 /\ gen.attempts = 2
  /\ Len(gen.yielded) = 2
  /\ gen.yielded[2].index > gen.yielded[1].index
  /\ regex.lastIndex = 0

\* C34: with a bounded total timeout, the deadline given to the executor for
\* an attempt is finite and no larger than the budget that remains when the
\* attempt starts, whatever matchTimeout is.
C34_DeadlineWithinBudget ==
  [][(Pulled /\ gen'.attempts = gen.attempts + 1 /\ IsFinite(iterable.timeout))
       => /\ IsFinite(gen'.deadline)
          /\ gen'.deadline.v <= RemainingBefore.v]_vars

\* C35: the deadline handling of an isolated call arms a timer exactly when
\* the timeout is positive and finite and aborts the token at once exactly
\* when the timeout is <= 0, never both; for an absent, NaN or Infinity
\* timeout it does neither and the token is never cancelled. The timer is
\* armed once, at the set-up, and fires at most once.
C35_TimerOrImmediateAbort ==
  [][\A i \in AsyncIds :
       LET c == acall[i]
           d == acall'[i]
       IN /\ d.controller
               => /\ (d.timer # "none") <=> FinitePositive(d.timeout)
                  /\ d.abortedAtDispatch <=> LeqZero(d.timeout)
                  /\ ~(d.timer # "none" /\ d.abortedAtDispatch)
                  /\ Unbounded(d.timeout) => (d.timer = "none" /\ ~d.aborted)
          /\ ~d.controller => (d.timer = "none" /\ ~d.aborted)
          /\ (d.timer = "armed" /\ c.timer # "armed") => (~c.controller /\ d.controller)
          /\ (d.timer = "fired" /\ c.timer # "fired") => c.timer = "armed"
          /\ (c.controller /\ d.controller) => d.abortedAtDispatch = c.abortedAtDispatch]_vars

\* C35 witness: a call with timeout -Infinity had its token aborted at the
\* set-up and no timer armed, and settled as a timeout.
C35_Witness ==
  \E i \in AsyncIds :
    /\ acall[i].timeout = NegInf /\ acall[i].controller
    /\ acall[i].abortedAtDispatch /\ acall[i].timer = "none"
    /\ acall[i].pc = "settled" /\ acall[i].outcome = "timeout"

\* C36: in a matches enumeration the remaining budget is changed only by an
\* attempt that completes, and by that attempt's measured engine time rounded
\* up; the time the consumer takes between pulls changes nothing of the
\* generator, and a pull finds the budget exhausted only if the attempts have
\* used it up, however long the consumer took.
C36_ConsumerTimeNotCharged ==
  [][/\ (iterable.live /\ gen'.idle > gen.idle)
          => gen' = [gen EXCEPT !.idle = gen'.idle]
     /\ (Pulled /\ IsFinite(RemainingBefore))
          => IF gen'.attempts = gen.attempts + 1 /\ gen'.exec = "returned"
             THEN gen'.remainingTimeout = Fin(RemainingBefore.v - CeilTicks(gen'.elapsed.v))
             ELSE gen'.remainingTimeout = RemainingBefore
     /\ (Pulled /\ gen'.exhausted)
          => /\ LeqZero(RemainingBefore)
             /\ gen.attempts >= 1 \/ LeqZero(iterable.timeout)]_vars

\* C36 witness: the consumer has taken longer than the whole total timeout,
\* and the enumeration has still made its second attempt, yielded its second
\* element and has budget left.
C36_Witness ==
  /\ iterable.live /\ FinitePositive(iterable.timeout)
  /\ gen.idle > iterable.timeout.v
  /\ gen.attempts = 2 /\ gen.exec = "returned" /\ Len(gen.yielded) = 2
  /\ IsFinite(gen.remainingTimeout) /\ gen.remainingTimeout.v > 0

====
